---- MODULE Spec2Model ----
(***************************************************************************)
(* Model of the orchestration core of the causal inference assistant:     *)
(* the stage agents (agents/*.ts), the planner (planner-agent.ts), the    *)
(* chat workflow orchestrator (chat-workflow-orchestrator.ts), the Mastra *)
(* workflow steps (causal-workflow.ts) and the workflow engine            *)
(* (workflow-engine.ts).                                                  *)
(*                                                                         *)
(* Optional string fields hold Undef when absent; optional list fields    *)
(* are wrapped ([def, val]) so that "absent" and "empty" stay distinct.   *)
(***************************************************************************)
EXTENDS Integers, Sequences, FiniteSets, TLC

\* ------------------------------------------------------------------ bounds
\* Longest conversationHistory explored before a restart.
MaxHistory == 2

\* Runs of the full workflow command.
MaxRuns == 1

\* ------------------------------------------------------------ value domain
Undef == "undefined"

UndefList == [def |-> FALSE, val |-> <<>>]

List(s) == [def |-> TRUE, val |-> s]

\* JavaScript truthiness of an optional string (undefined and "" are falsy).
Truthy(s) == s # Undef /\ s # ""

\* a || b on optional strings.
OrElse(a, b) == IF Truthy(a) THEN a ELSE b

\* WorkflowStage enum, in declaration order.
WorkflowStage == <<"formulation", "eda", "dag", "identification", "estimation">>

Stages == {WorkflowStage[i] : i \in 1..Len(WorkflowStage)}

\* Position of a stage in the fixed order.
StageRank(s) == CHOOSE i \in 1..Len(WorkflowStage) : WorkflowStage[i] = s

\* Number of entries of a sequence satisfying a membership test.
RECURSIVE CountIn(_, _)
CountIn(seq, S) ==
  IF seq = <<>> THEN 0
  ELSE (IF Head(seq) \in S THEN 1 ELSE 0) + CountIn(Tail(seq), S)

\* ----------------------------------------------------------- AgentResult
NoData == [kind |-> "none"]

NoFeedback == [type |-> "none", message |-> "", suggestedAction |-> Undef]

\* BaseCausalAgent.createSuccessResult
createSuccessResult(data, nextSteps) ==
  [success |-> TRUE, data |-> data, error |-> Undef, feedback |-> NoFeedback,
   suggestedNextSteps |-> nextSteps, requiresIteration |-> FALSE]

\* BaseCausalAgent.createErrorResult
createErrorResult(errorMessage, suggestedAction) ==
  [success |-> FALSE, data |-> NoData, error |-> errorMessage,
   feedback |-> [type |-> "error", message |-> errorMessage,
                 suggestedAction |-> suggestedAction],
   suggestedNextSteps |-> 0, requiresIteration |-> FALSE]

\* An iteration result that carries no feedback.
createIterationResultWithoutFeedback(data, feedbackMessage, suggestedAction) ==
  [success |-> TRUE, data |-> data, error |-> Undef, feedback |-> NoFeedback,
   suggestedNextSteps |-> 0, requiresIteration |-> TRUE]

\* BaseCausalAgent.createIterationResult
createIterationResult(data, feedbackMessage, suggestedAction) ==
  [success |-> TRUE, data |-> data, error |-> Undef,
   feedback |-> [type |-> "warning", message |-> feedbackMessage,
                 suggestedAction |-> suggestedAction],
   suggestedNextSteps |-> 0, requiresIteration |-> TRUE]

\* result.data in a boolean position: undefined is falsy, any object is truthy.
HasData(result) == result.data.kind # "none"

\* ---------------------------------------------------------- SharedContext
\* The context a new session starts with: { confounders: [] }.
EmptyContext ==
  [treatment |-> Undef, outcome |-> Undef, confounders |-> List(<<>>),
   dag |-> Undef, dataset |-> Undef, adjustmentSet |-> UndefList,
   estimate |-> Undef]

\* ------------------------------------------------ external collaborators
\* What one awaited completion-service call can do: throw, or reply with
\* text whose shape decides the parser branch:
\*   "json"    the first-{ to last-} block is valid JSON,
\*   "badjson" there is such a block but JSON.parse throws,
\*   "text"    there is no brace-delimited block.
ReplyShapes == {"json", "badjson", "text"}

\* What one VSCodeJupyterExecutor.executeCode call can do.
ExecOutcomes == {"ok", "error", "fail", "throw"}

ServiceError == "service error"

\* --------------------------------------------------------- stage agents
\* Every execute returns the AgentResult, the context as the agent left it
\* (the agent mutates the object it is handed), the number of calls made to
\* the completion service and to the execution service, the parser that
\* produced the data, the shape of the reply that was parsed, and whether
\* execute raised to its caller.
AgentReturn(result, ctx, llmCalls, execCalls, parser) ==
  [result |-> result, ctx |-> ctx, llmCalls |-> llmCalls,
   execCalls |-> execCalls, parser |-> parser, shape |-> "none",
   raised |-> FALSE]

\* --- FormulationAgent
\* The replies name both variables or neither, and list one issue, a
\* critical one, or none.
FormulationReplies ==
  {r \in [shape : ReplyShapes, treatment : {Undef, "T1"}, outcome : {Undef, "Y1"},
          critical : BOOLEAN, feasibility : {"HIGH", "LOW", "bogus"}] :
     (r.treatment = Undef) <=> (r.outcome = Undef)}

\* FormulationAgent.parseStructuredText
parseStructuredText(reply) ==
  [kind |-> "formulation",
   treatment |-> OrElse(reply.treatment, "Not specified"),
   outcome |-> OrElse(reply.outcome, "Not specified"),
   critical |-> reply.critical,
   issues |-> IF reply.critical THEN 1 ELSE 0,
   feasibility |-> "MEDIUM"]

\* A parser that hands every reply with a JSON block to the text parser too.
parseFormulationResponseThenText(reply) ==
  IF reply.shape = "badjson" THEN
    [data |-> [kind |-> "formulation",
               treatment |-> "Unable to extract treatment",
               outcome |-> "Unable to extract outcome",
               critical |-> FALSE,
               issues |-> 1,
               feasibility |-> "LOW"],
     parser |-> "catch"]
  ELSE
    [data |-> parseStructuredText(reply), parser |-> "heuristic"]

\* FormulationAgent.parseFormulationResponse
parseFormulationResponse(reply) ==
  IF reply.shape = "json" THEN
    [data |-> [kind |-> "formulation",
               treatment |-> OrElse(reply.treatment, "Not specified"),
               outcome |-> OrElse(reply.outcome, "Not specified"),
               critical |-> reply.critical,
               issues |-> IF reply.critical THEN 1 ELSE 0,
               feasibility |-> IF reply.feasibility \in {"HIGH", "MEDIUM", "LOW"}
                               THEN reply.feasibility ELSE "MEDIUM"],
     parser |-> "strict"]
  ELSE IF reply.shape = "text" THEN
    [data |-> parseStructuredText(reply), parser |-> "heuristic"]
  ELSE
    [data |-> [kind |-> "formulation",
               treatment |-> "Unable to extract treatment",
               outcome |-> "Unable to extract outcome",
               critical |-> FALSE,
               issues |-> 1,
               feasibility |-> "LOW"],
     parser |-> "catch"]

\* FormulationAgent.execute
FormulationExecute(ctx, llm, reply) ==
  IF llm = "throw" THEN
    AgentReturn(createErrorResult(ServiceError,
                  "Check if the research question is clearly stated and try again"),
                ctx, 1, 0, "none")
  ELSE
    LET p == parseFormulationResponse(reply)
        ctx2 == [ctx EXCEPT !.treatment = p.data.treatment,
                            !.outcome = p.data.outcome]
    IN IF p.data.critical /\ p.data.feasibility = "LOW" THEN
         AgentReturn(createIterationResult(p.data,
                       "Research question has critical issues that may prevent causal analysis",
                       "Consider refining the question"),
                     ctx2, 1, 0, p.parser)
       ELSE
         AgentReturn(createSuccessResult(p.data, 2), ctx2, 1, 0, p.parser)

\* --- EDAAgent
ViolationLists ==
  {<<>>, <<"critical">>, <<"moderate">>, <<"minor">>, <<"minor", "critical">>}

EDAReplies ==
  [shape : ReplyShapes,
   violations : {UndefList} \cup {List(v) : v \in ViolationLists},
   hasCode : BOOLEAN]

\* EDAAgent.parseStructuredEDAText
parseStructuredEDAText(reply) ==
  [kind |-> "eda", violations |-> <<>>,
   pythonCode |-> IF reply.hasCode THEN "code" ELSE "# No code found in response",
   executionOutput |-> Undef, executionSuccess |-> Undef,
   degraded |-> TRUE]

\* EDAAgent.parseEDAResponse
parseEDAResponse(reply) ==
  IF reply.shape = "json" THEN
    [data |-> [kind |-> "eda",
               violations |-> IF reply.violations.def THEN reply.violations.val
                              ELSE <<>>,
               pythonCode |-> IF reply.hasCode THEN "code" ELSE "# No code generated",
               executionOutput |-> Undef, executionSuccess |-> Undef,
               degraded |-> FALSE],
     parser |-> "strict"]
  ELSE IF reply.shape = "text" THEN
    [data |-> parseStructuredEDAText(reply), parser |-> "heuristic"]
  ELSE
    [data |-> [kind |-> "eda", violations |-> <<"moderate">>,
               pythonCode |-> "# Response parsing failed",
               executionOutput |-> Undef, executionSuccess |-> Undef,
               degraded |-> TRUE],
     parser |-> "catch"]

\* The block "Execute the generated Python code if Jupyter is available",
\* shared by EDAAgent.execute and EstimationAgent.execute: the fields the
\* execution result adds to the parsed data.
RunsCode(data) == Truthy(data.pythonCode) /\ data.pythonCode # "# No code generated"

WithExecution(data, exec) ==
  IF ~RunsCode(data) \/ exec = "throw" THEN data
  ELSE [data EXCEPT !.executionOutput = "output",
                    !.executionSuccess = IF exec = "ok" THEN "true" ELSE "false"]

\* EDAAgent.execute
EDAExecute(ctx, llm, reply, exec) ==
  IF ~Truthy(ctx.treatment) \/ ~Truthy(ctx.outcome) THEN
    AgentReturn(createErrorResult("Treatment and outcome must be defined before EDA",
                  "Complete the Problem Formulation stage first"),
                ctx, 0, 0, "none")
  ELSE IF llm = "throw" THEN
    AgentReturn(createErrorResult(ServiceError,
                  "Ensure dataset information is available and try again"),
                ctx, 1, 0, "none")
  ELSE
    LET p == parseEDAResponse(reply)
        ran == RunsCode(p.data)
        d1 == WithExecution(p.data, exec)
        d2 == IF ran /\ exec = "error"
              THEN [d1 EXCEPT !.violations = Append(@, "moderate")]
              ELSE d1
        criticalViolations == CountIn(d2.violations, {"critical"})
    IN IF criticalViolations > 0 THEN
         AgentReturn(createIterationResult(d2,
                       "Found critical assumption violations",
                       "Address data quality issues before proceeding to causal analysis"),
                     ctx, 1, IF ran THEN 1 ELSE 0, p.parser)
       ELSE
         AgentReturn(createSuccessResult(d2, 4), ctx, 1,
                     IF ran THEN 1 ELSE 0, p.parser)

\* --- EstimationAgent
EstimationReplies ==
  [shape : ReplyShapes, method : {Undef, "ipw"}, hasCode : BOOLEAN]

\* EstimationAgent.extractCodeFallback
extractCodeFallback(reply) ==
  [kind |-> "estimation", method |-> "regression",
   pythonCode |-> IF reply.hasCode THEN "code" ELSE "# No code found in response",
   executionOutput |-> Undef, executionSuccess |-> Undef,
   limitations |-> 1]

\* EstimationAgent.createFallbackResult
createEstimationFallbackResult ==
  [kind |-> "estimation", method |-> "regression",
   pythonCode |-> "# Estimation code generation failed",
   executionOutput |-> Undef, executionSuccess |-> Undef,
   limitations |-> 1]

\* EstimationAgent.parseEstimationResponse
parseEstimationResponse(reply) ==
  IF reply.shape = "json" THEN
    [data |-> [kind |-> "estimation",
               method |-> OrElse(reply.method, "regression"),
               pythonCode |-> IF reply.hasCode THEN "code" ELSE "# No code generated",
               executionOutput |-> Undef, executionSuccess |-> Undef,
               limitations |-> 0],
     parser |-> "strict"]
  ELSE IF reply.shape = "text" THEN
    [data |-> extractCodeFallback(reply), parser |-> "heuristic"]
  ELSE
    [data |-> createEstimationFallbackResult, parser |-> "catch"]

\* An execute that goes on to the completion service without an adjustment set.
EstimationExecuteWithoutAdjustmentCheck(ctx, llm, reply, exec) ==
  IF ~Truthy(ctx.treatment) \/ ~Truthy(ctx.outcome) THEN
    AgentReturn(createErrorResult("Treatment and outcome must be defined for estimation",
                  "Complete earlier workflow stages first"),
                ctx, 0, 0, "none")
  ELSE
    LET p == parseEstimationResponse(reply)
        ran == RunsCode(p.data)
        d1 == WithExecution(p.data, exec)
    IN AgentReturn(createSuccessResult(d1, 4),
                   [ctx EXCEPT !.estimate = d1.method],
                   1, IF ran THEN 1 ELSE 0, p.parser)

\* EstimationAgent.execute
EstimationExecute(ctx, llm, reply, exec) ==
  IF ~Truthy(ctx.treatment) \/ ~Truthy(ctx.outcome) THEN
    AgentReturn(createErrorResult("Treatment and outcome must be defined for estimation",
                  "Complete earlier workflow stages first"),
                ctx, 0, 0, "none")
  ELSE IF ~ctx.adjustmentSet.def \/ Len(ctx.adjustmentSet.val) = 0 THEN
    AgentReturn(createIterationResult([kind |-> "empty"],
                  "No adjustment set specified",
                  "Complete the Identification stage to determine which variables to adjust for"),
                ctx, 0, 0, "none")
  ELSE IF llm = "throw" THEN
    AgentReturn(createErrorResult(ServiceError,
                  "Check the adjustment set and data availability"),
                ctx, 1, 0, "none")
  ELSE
    LET p == parseEstimationResponse(reply)
        ran == RunsCode(p.data)
        d1 == WithExecution(p.data, exec)
        d2 == IF ran /\ exec = "error"
              THEN [d1 EXCEPT !.limitations = @ + 1]
              ELSE d1
    IN AgentReturn(createSuccessResult(d2, 4),
                   [ctx EXCEPT !.estimate = d2.method],
                   1, IF ran THEN 1 ELSE 0, p.parser)

\* --- DAGAgent
\* issues = -1 stands for a parsed validation object without an issues
\* array (parsed.validation is used as it comes whenever it is truthy).
DAGReplies ==
  [shape : ReplyShapes, hasNoCycles : BOOLEAN, issues : {-1, 0, 1},
   suggestedConfounders : {UndefList, List(<<>>), List(<<"c2">>)}]

\* DAGAgent.createMinimalDAG
createMinimalDAG ==
  [kind |-> "dag", dag |-> "minimal dag", hasNoCycles |-> TRUE, issues |-> 1,
   suggestedConfounders |-> <<>>]

\* DAGAgent.parseDAGResponse
parseDAGResponse(reply) ==
  IF reply.shape = "json" THEN
    [data |-> [kind |-> "dag", dag |-> "dag",
               hasNoCycles |-> reply.hasNoCycles, issues |-> reply.issues,
               suggestedConfounders |->
                 IF reply.suggestedConfounders.def
                 THEN reply.suggestedConfounders.val ELSE <<>>],
     parser |-> "strict"]
  ELSE
    [data |-> createMinimalDAG,
     parser |-> IF reply.shape = "text" THEN "heuristic" ELSE "catch"]

\* DAGAgent.execute storing a placeholder DAG before the completion call.
DAGExecuteStoringFirst(ctx, llm, reply) ==
  IF ~Truthy(ctx.treatment) \/ ~Truthy(ctx.outcome) THEN
    AgentReturn(createErrorResult("Treatment and outcome must be defined before DAG construction",
                  "Complete the Problem Formulation stage first"),
                ctx, 0, 0, "none")
  ELSE IF llm = "throw" THEN
    AgentReturn(createErrorResult(ServiceError,
                  "Check the research question and try again"),
                [ctx EXCEPT !.dag = "pending dag"], 1, 0, "none")
  ELSE
    LET p == parseDAGResponse(reply)
        ctx2 == [ctx EXCEPT !.dag = p.data.dag,
                            !.confounders = List(p.data.suggestedConfounders)]
    IN IF ~p.data.hasNoCycles \/ p.data.issues # 0
       THEN AgentReturn(createIterationResult(p.data, "DAG has issues", "Review"),
                        ctx2, 1, 0, p.parser)
       ELSE AgentReturn(createSuccessResult(p.data, 3), ctx2, 1, 0, p.parser)

\* DAGAgent.execute
DAGExecute(ctx, llm, reply) ==
  IF ~Truthy(ctx.treatment) \/ ~Truthy(ctx.outcome) THEN
    AgentReturn(createErrorResult("Treatment and outcome must be defined before DAG construction",
                  "Complete the Problem Formulation stage first"),
                ctx, 0, 0, "none")
  ELSE IF llm = "throw" THEN
    AgentReturn(createErrorResult(ServiceError,
                  "Check the research question and try again"),
                ctx, 1, 0, "none")
  ELSE
    LET p == parseDAGResponse(reply)
        ctx2 == [ctx EXCEPT !.dag = p.data.dag,
                            !.confounders = List(p.data.suggestedConfounders)]
    IN IF ~p.data.hasNoCycles THEN
         AgentReturn(createIterationResult(p.data,
                       "DAG contains cycles - not a valid causal graph",
                       "Review and fix the causal relationships to ensure acyclicity"),
                     ctx2, 1, 0, p.parser)
       ELSE IF p.data.issues = -1 THEN
         \* result.validation.issues.length throws inside the try block
         AgentReturn(createErrorResult("TypeError",
                       "Check the research question and try again"),
                     ctx2, 1, 0, p.parser)
       ELSE IF p.data.issues > 0 THEN
         AgentReturn(createIterationResult(p.data,
                       "DAG has structural issues",
                       "Review and address the flagged issues before proceeding"),
                     ctx2, 1, 0, p.parser)
       ELSE
         AgentReturn(createSuccessResult(p.data, 3), ctx2, 1, 0, p.parser)

\* --- IdentificationAgent
IdentificationReplies ==
  [shape : ReplyShapes, isIdentifiable : BOOLEAN,
   recommendedSet : {<<>>, <<"c1">>}, warnings : {0, 1}]

\* IdentificationAgent.createFallbackResult
createIdentificationFallbackResult ==
  [kind |-> "identification", isIdentifiable |-> FALSE,
   recommendedSet |-> <<>>, warnings |-> 1]

\* IdentificationAgent.parseIdentificationResponse
parseIdentificationResponse(reply) ==
  IF reply.shape = "json" THEN
    [data |-> [kind |-> "identification",
               isIdentifiable |-> reply.isIdentifiable,
               recommendedSet |-> reply.recommendedSet,
               warnings |-> reply.warnings],
     parser |-> "strict"]
  ELSE
    [data |-> createIdentificationFallbackResult,
     parser |-> IF reply.shape = "text" THEN "heuristic" ELSE "catch"]

\* IdentificationAgent.execute without the test on its required fields.
IdentificationExecuteUnguarded(ctx, llm, reply) ==
  IF llm = "throw" THEN
    AgentReturn(createErrorResult(ServiceError,
                  "Check the DAG structure and try again"),
                ctx, 1, 0, "none")
  ELSE
    LET p == parseIdentificationResponse(reply)
        ctx2 == IF p.data.isIdentifiable /\ Len(p.data.recommendedSet) > 0
                THEN [ctx EXCEPT !.adjustmentSet = List(p.data.recommendedSet)]
                ELSE ctx
    IN IF ~p.data.isIdentifiable \/ p.data.warnings > 0
       THEN AgentReturn(createIterationResult(p.data, "Not identifiable or warnings",
                                              "Review"),
                        ctx2, 1, 0, p.parser)
       ELSE AgentReturn(createSuccessResult(p.data, 3), ctx2, 1, 0, p.parser)

\* IdentificationAgent.execute
IdentificationExecute(ctx, llm, reply) ==
  IF ~Truthy(ctx.dag) \/ ~Truthy(ctx.treatment) \/ ~Truthy(ctx.outcome) THEN
    AgentReturn(createErrorResult("DAG, treatment, and outcome must be defined for identification",
                  "Complete the DAG Construction stage first"),
                ctx, 0, 0, "none")
  ELSE IF llm = "throw" THEN
    AgentReturn(createErrorResult(ServiceError,
                  "Check the DAG structure and try again"),
                ctx, 1, 0, "none")
  ELSE
    LET p == parseIdentificationResponse(reply)
        ctx2 == IF p.data.isIdentifiable /\ Len(p.data.recommendedSet) > 0
                THEN [ctx EXCEPT !.adjustmentSet = List(p.data.recommendedSet)]
                ELSE ctx
    IN IF ~p.data.isIdentifiable THEN
         AgentReturn(createIterationResult(p.data,
                       "Causal effect is not identifiable with current DAG",
                       "Consider adding more measured confounders"),
                     ctx2, 1, 0, p.parser)
       ELSE IF p.data.warnings > 0 THEN
         AgentReturn(createIterationResult(p.data,
                       "Identifiable but with warnings",
                       "Review warnings carefully before proceeding to estimation"),
                     ctx2, 1, 0, p.parser)
       ELSE
         AgentReturn(createSuccessResult(p.data, 3), ctx2, 1, 0, p.parser)

\* ------------------------------------------------------------- messages
\* A message is the sequence of its characters, so that includes(), regular
\* expression tests and toLowerCase() are computed rather than assumed.
MsgY == <<"y">>

MsgYes == <<"Y", "e", "s">>

MsgHello == <<"h", "e", "l", "l", "o">>

MsgHelp == <<"h", "e", "l", "p">>

MsgAspirin == <<"D", "o", "e", "s", " ", "a", "s", "p", "i", "r", "i", "n", " ", "r", "e", "d", "u", "c", "e", " ", "h", "e", "a", "r", "t", " ", "a", "t", "t", "a", "c", "k", "s", "?">>

MsgEstimate == <<"e", "s", "t", "i", "m", "a", "t", "e", " ", "t", "h", "e", " ", "e", "f", "f", "e", "c", "t">>

MsgExplore == <<"e", "x", "p", "l", "o", "r", "e">>

MsgExploreDf == <<"e", "x", "p", "l", "o", "r", "e", " ", "u", "s", "i", "n", "g", " ", "d", "f">>

MsgRestart == <<"r", "e", "s", "t", "a", "r", "t">>

\* Messages that match several of the fallback classifier's patterns.
MsgHiEda == <<"h", "i", " ", "e", "d", "a">>

MsgDoesItHelp == <<"d", "o", "e", "s", " ", "i", "t", " ", "h", "e", "l", "p">>

MsgCauseEda == <<"c", "a", "u", "s", "e", " ", "e", "d", "a">>

MsgEdaEstimate == <<"e", "d", "a", " ", "e", "s", "t", "i", "m", "a", "t", "e">>

Messages ==
  {MsgY, MsgYes, MsgHello, MsgHelp, MsgAspirin, MsgEstimate, MsgExplore,
   MsgExploreDf, MsgRestart, MsgHiEda, MsgDoesItHelp, MsgCauseEda,
   MsgEdaEstimate}

\* The messages typed into the chat.
ChatMessages ==
  {MsgYes, MsgHelp, MsgAspirin, MsgEstimate, MsgExplore, MsgExploreDf,
   MsgRestart}

UpperToLower ==
  [c \in {"A", "D", "E", "H", "R", "V", "Y"} |->
     CASE c = "A" -> "a" [] c = "D" -> "d" [] c = "E" -> "e" [] c = "H" -> "h"
       [] c = "R" -> "r" [] c = "V" -> "v" [] c = "Y" -> "y"]

\* String.prototype.toLowerCase
toLowerCase(m) ==
  [i \in 1..Len(m) |-> IF m[i] \in DOMAIN UpperToLower THEN UpperToLower[m[i]] ELSE m[i]]

\* pat occurs in m starting at position i.
OccursAt(m, pat, i) ==
  /\ i >= 1
  /\ i + Len(pat) - 1 <= Len(m)
  /\ \A k \in 1..Len(pat) : m[i + k - 1] = pat[k]

\* String.prototype.includes
includes(m, pat) == \E i \in 1..Len(m) : OccursAt(m, pat, i)

\* RegExp test of  p1.*p2. ... .*pn  (literal pieces separated by .*) against
\* m from position from on: the pieces occur in order without overlapping.
RECURSIVE MatchesFrom(_, _, _)
MatchesFrom(m, pieces, from) ==
  IF pieces = <<>> THEN TRUE
  ELSE \E i \in from..Len(m) :
         /\ OccursAt(m, Head(pieces), i)
         /\ MatchesFrom(m, Tail(pieces), i + Len(Head(pieces)))

\* datasetConfirmationPatterns.some(pattern => pattern.test(message)); the
\* patterns carry the i flag.
datasetConfirmationPatterns ==
  <<<<<<"d", "a", "t", "a", "s", "e", "t">>, <<"l", "o", "a", "d", "e", "d">>, <<"d", "f">>>>,
    <<<<"d", "f">>, <<"l", "o", "a", "d", "e", "d">>>>,
    <<<<"a", "l", "r", "e", "a", "d", "y">>, <<"l", "o", "a", "d", "e", "d">>>>,
    <<<<"d", "a", "t", "a">>, <<"i", "n">>, <<"d", "f">>>>,
    <<<<"u", "s", "i", "n", "g">>, <<"d", "f">>>>>>

DatasetConfirmed(message) ==
  \E k \in 1..Len(datasetConfirmationPatterns) :
    MatchesFrom(toLowerCase(message), datasetConfirmationPatterns[k], 1)

\* --------------------------------------------------------------- planner
\* A PlannerResult, flattened: intent.type, intent.subtype,
\* intent.requiresDataset ("true", "false" or Undef), intent.requiresPriorStages,
\* causalSpec.treatment/outcome/confounders, executionPlan (def = FALSE when
\* the object is absent; steps = number of steps), confidence in percent,
\* reasoning.
NoPlan == [def |-> FALSE, steps |-> 0, prerequisites |-> <<>>]

Plan(steps, prerequisites) ==
  [def |-> TRUE, steps |-> steps, prerequisites |-> prerequisites]

PlannerResult(type, subtype, requiresDataset, prior, treatment, outcome, confounders, plan, confidence, reasoning) ==
  [type |-> type, subtype |-> subtype, requiresDataset |-> requiresDataset,
   requiresPriorStages |-> prior, treatment |-> treatment, outcome |-> outcome,
   confounders |-> confounders, plan |-> plan, confidence |-> confidence,
   reasoning |-> reasoning]

PrereqDatasetLoaded == <<"D", "a", "t", "a", "s", "e", "t", " ", "l", "o", "a", "d", "e", "d">>

PrereqVariablesDefined == <<"V", "a", "r", "i", "a", "b", "l", "e", "s", " ", "d", "e", "f", "i", "n", "e", "d">>

PrereqAssumptionsChecked == <<"A", "s", "s", "u", "m", "p", "t", "i", "o", "n", "s", " ", "c", "h", "e", "c", "k", "e", "d">>

FallbackReasoning == "Fallback keyword-based analysis (LLM analysis failed)"

\* validateAndEnrich without "Add implicit prerequisites based on intent".
validateAndEnrichWithoutImplicit(r, context) ==
  [r EXCEPT
     !.confidence = IF r.confidence < 0 THEN 0
                    ELSE IF r.confidence > 100 THEN 100 ELSE r.confidence,
     !.treatment = IF ~Truthy(r.treatment) /\ Truthy(context.treatment)
                   THEN context.treatment ELSE r.treatment,
     !.outcome = IF ~Truthy(r.outcome) /\ Truthy(context.outcome)
                 THEN context.outcome ELSE r.outcome,
     !.confounders =
        IF /\ ~(r.confounders.def /\ Len(r.confounders.val) > 0)
           /\ context.confounders.def /\ Len(context.confounders.val) > 0
        THEN context.confounders ELSE r.confounders]

\* PlannerAgent.validateAndEnrich
validateAndEnrich(r, context) ==
  LET confidence == IF r.confidence < 0 THEN 0
                    ELSE IF r.confidence > 100 THEN 100 ELSE r.confidence
      treatment == IF ~Truthy(r.treatment) /\ Truthy(context.treatment)
                   THEN context.treatment ELSE r.treatment
      outcome == IF ~Truthy(r.outcome) /\ Truthy(context.outcome)
                 THEN context.outcome ELSE r.outcome
      confounders ==
        IF /\ ~(r.confounders.def /\ Len(r.confounders.val) > 0)
           /\ context.confounders.def /\ Len(context.confounders.val) > 0
        THEN context.confounders ELSE r.confounders
      hasFormulation ==
        /\ r.requiresPriorStages.def
        /\ \E i \in 1..Len(r.requiresPriorStages.val) :
             r.requiresPriorStages.val[i] = "formulation"
      prior == IF r.type = "estimation" /\ ~hasFormulation
               THEN List(Append(r.requiresPriorStages.val, "formulation"))
               ELSE r.requiresPriorStages
      requiresDataset == IF r.type = "eda" /\ r.requiresDataset = Undef
                         THEN "true" ELSE r.requiresDataset
  IN [r EXCEPT !.confidence = confidence, !.treatment = treatment,
               !.outcome = outcome, !.confounders = confounders,
               !.requiresPriorStages = prior,
               !.requiresDataset = requiresDataset]

\* The conditions fallbackAnalysis tests on message.toLowerCase().
GreetingPattern(lowerMsg) ==
  \/ includes(lowerMsg, <<"h", "e", "l", "l", "o">>)
  \/ includes(lowerMsg, <<"h", "i">>)
  \/ includes(lowerMsg, <<"h", "e", "y">>)
  \/ MatchesFrom(lowerMsg, <<<<"w", "h", "a", "t">>, <<"y", "o", "u", "r">>, <<"n", "a", "m", "e">>>>, 1)
  \/ MatchesFrom(lowerMsg, <<<<"w", "h", "a", "t">>, <<"u", "r">>, <<"n", "a", "m", "e">>>>, 1)
  \/ MatchesFrom(lowerMsg, <<<<"w", "h", "o">>, <<"a", "r", "e">>, <<"y", "o", "u">>>>, 1)

HelpPattern(lowerMsg) ==
  \/ includes(lowerMsg, <<"h", "e", "l", "p">>)
  \/ includes(lowerMsg, <<"h", "o", "w", " ", "d", "o", " ", "i">>)
  \/ includes(lowerMsg, <<"h", "o", "w", " ", "t", "o">>)
  \/ includes(lowerMsg, <<"c", "a", "n", " ", "y", "o", "u", " ", "h", "e", "l", "p">>)

AffirmativePattern(lowerMsg) ==
  lowerMsg \in {<<"y", "e", "s">>, <<"y", "e", "a", "h">>, <<"s", "u", "r", "e">>, <<"o", "k">>, <<"o", "k", "a", "y">>, <<"y">>}

CausalPattern(lowerMsg) ==
  \/ includes(lowerMsg, <<"e", "f", "f", "e", "c", "t", " ", "o", "f">>)
  \/ includes(lowerMsg, <<"d", "o", "e", "s">>)
  \/ includes(lowerMsg, <<"c", "a", "u", "s", "e">>)

ExplorationPattern(lowerMsg) ==
  \/ includes(lowerMsg, <<"e", "x", "p", "l", "o", "r", "e">>)
  \/ includes(lowerMsg, <<"c", "h", "e", "c", "k", " ", "a", "s", "s", "u", "m", "p", "t", "i", "o", "n", "s">>)
  \/ includes(lowerMsg, <<"e", "d", "a">>)

EstimationPattern(lowerMsg) ==
  includes(lowerMsg, <<"e", "s", "t", "i", "m", "a", "t", "e">>) \/ includes(lowerMsg, <<"c", "a", "l", "c", "u", "l", "a", "t", "e">>)

\* What each branch of fallbackAnalysis returns.
FallbackResult(branch, context) ==
  CASE branch = "greeting" ->
         PlannerResult("general_question", "greeting", "false", List(<<>>),
                       Undef, Undef, UndefList, Plan(1, <<>>), 95,
                       "Detected greeting or introduction request")
    [] branch = "help" ->
         PlannerResult("general_question", "help", "false", List(<<>>),
                       Undef, Undef, UndefList, Plan(1, <<>>), 90,
                       "Detected help request")
    [] branch = "affirmative" ->
         PlannerResult("workflow_control", "affirmative", "false", List(<<>>),
                       Undef, Undef, UndefList, Plan(1, <<>>), 85,
                       "Detected affirmative response")
    [] branch = "causal" ->
         PlannerResult("formulation", Undef, "false", List(<<>>),
                       Undef, Undef, UndefList, Plan(1, <<>>), 60,
                       FallbackReasoning)
    [] branch = "exploration" ->
         PlannerResult("eda", Undef, "true", List(<<"formulation">>),
                       context.treatment, context.outcome, context.confounders,
                       Plan(1, <<PrereqDatasetLoaded, PrereqVariablesDefined>>),
                       60, FallbackReasoning)
    [] branch = "estimation" ->
         PlannerResult("estimation", Undef, "true",
                       List(<<"formulation", "eda">>),
                       context.treatment, context.outcome, context.confounders,
                       Plan(1, <<PrereqDatasetLoaded, PrereqVariablesDefined,
                                 PrereqAssumptionsChecked>>),
                       60, FallbackReasoning)
    [] OTHER ->
         PlannerResult("general_question", Undef, "false", List(<<>>),
                       Undef, Undef, UndefList, Plan(1, <<>>), 60,
                       FallbackReasoning)

\* A classifier that looks for the stage keywords before the greeting, help
\* and affirmative patterns.
fallbackAnalysisStagesFirst(message, context) ==
  LET lowerMsg == toLowerCase(message)
  IN FallbackResult(
       IF CausalPattern(lowerMsg) THEN "causal"
       ELSE IF ExplorationPattern(lowerMsg) THEN "exploration"
       ELSE IF EstimationPattern(lowerMsg) THEN "estimation"
       ELSE IF GreetingPattern(lowerMsg) THEN "greeting"
       ELSE IF HelpPattern(lowerMsg) THEN "help"
       ELSE IF AffirmativePattern(lowerMsg) THEN "affirmative"
       ELSE "generic", context)

\* A classifier without the test for affirmative responses.
fallbackAnalysisWithoutAffirmative(message, context) ==
  LET lowerMsg == toLowerCase(message)
  IN FallbackResult(
       IF GreetingPattern(lowerMsg) THEN "greeting"
       ELSE IF HelpPattern(lowerMsg) THEN "help"
       ELSE IF CausalPattern(lowerMsg) THEN "causal"
       ELSE IF ExplorationPattern(lowerMsg) THEN "exploration"
       ELSE IF EstimationPattern(lowerMsg) THEN "estimation"
       ELSE "generic", context)

\* A classifier that takes every message for an estimation request once the
\* context names a treatment.
fallbackAnalysisByContext(message, context) ==
  LET lowerMsg == toLowerCase(message)
  IN FallbackResult(
       IF Truthy(context.treatment) THEN "estimation"
       ELSE IF GreetingPattern(lowerMsg) THEN "greeting"
       ELSE IF HelpPattern(lowerMsg) THEN "help"
       ELSE IF AffirmativePattern(lowerMsg) THEN "affirmative"
       ELSE IF CausalPattern(lowerMsg) THEN "causal"
       ELSE IF ExplorationPattern(lowerMsg) THEN "exploration"
       ELSE IF EstimationPattern(lowerMsg) THEN "estimation"
       ELSE "generic", context)

\* PlannerAgent.fallbackAnalysis
fallbackAnalysis(message, context) ==
  LET lowerMsg == toLowerCase(message)
  IN FallbackResult(
       IF GreetingPattern(lowerMsg) THEN "greeting"
       ELSE IF HelpPattern(lowerMsg) THEN "help"
       ELSE IF AffirmativePattern(lowerMsg) THEN "affirmative"
       ELSE IF CausalPattern(lowerMsg) THEN "causal"
       ELSE IF ExplorationPattern(lowerMsg) THEN "exploration"
       ELSE IF EstimationPattern(lowerMsg) THEN "estimation"
       ELSE "generic", context)

\* What the planner's completion-service call can do: throw, reply without a
\* JSON object ("nojson"), reply with a block JSON.parse rejects ("badjson"),
\* reply with an object lacking intent or causalSpec ("malformed"), or reply
\* with a PlannerResult-shaped object ("json").
IntentChoices ==
  {<<"formulation", Undef>>, <<"eda", Undef>>, <<"estimation", Undef>>,
   <<"dag", Undef>>, <<"dataset_operation", Undef>>,
   <<"general_question", Undef>>,
   <<"workflow_control", Undef>>, <<"workflow_control", "restart">>,
   <<"workflow_control", "affirmative">>}

StageIntentTypes == {"formulation", "eda", "estimation"}

SpecChoices ==
  {<<Undef, Undef, UndefList>>, <<"T1", "Y1", UndefList>>,
   <<"T1", "Y1", List(<<>>)>>, <<"T1", "Y1", List(<<"c1">>)>>}

PlanChoices ==
  {<<NoPlan, 90>>, <<Plan(1, <<>>), 50>>,
   <<Plan(2, <<PrereqDatasetLoaded>>), 150>>}

PriorChoices(type) ==
  IF type \in StageIntentTypes
  THEN {UndefList, List(<<"formulation">>), List(<<"formulation", "eda">>)}
  ELSE {List(<<>>)}

RequiresDatasetChoices(type) ==
  CASE type = "eda" -> {"true", "false", Undef}
    [] type \in {"formulation", "estimation"} -> {"true", "false"}
    [] OTHER -> {"false"}

PlannerJSON ==
  {PlannerResult(i[1], i[2], d, p, s[1], s[2], s[3], e[1], e[2], "llm reasoning") :
     i \in IntentChoices, s \in SpecChoices, e \in PlanChoices,
     d \in {"true", "false", Undef},
     p \in {UndefList, List(<<>>), List(<<"formulation">>),
            List(<<"formulation", "eda">>)}}

\* The planner's parsed replies the model draws from.  A reply without an
\* executionPlan fails in checkPrerequisites whatever else it holds, so one
\* such reply per intent is enough.
PlannerReplies ==
  {r \in PlannerJSON :
     /\ r.requiresDataset \in RequiresDatasetChoices(r.type)
     /\ r.requiresPriorStages \in PriorChoices(r.type)
     /\ (~r.plan.def =>
           /\ ~Truthy(r.treatment)
           /\ r.requiresDataset = "false"
           /\ r.requiresPriorStages = CHOOSE q \in PriorChoices(r.type) : TRUE)}

PlannerFailures == {"throw", "nojson", "badjson", "malformed"}

\* An analyze that gives up when its completion call or the parse fails.
analyzeWithoutFallback(message, context, llm, reply) ==
  IF llm \in PlannerFailures
  THEN PlannerResult("none", Undef, "false", UndefList, Undef, Undef, UndefList,
                     NoPlan, 0, "")
  ELSE validateAndEnrich(reply, context)

\* PlannerAgent.analyze
analyze(message, context, llm, reply) ==
  IF llm \in PlannerFailures
  THEN fallbackAnalysis(message, context)
  ELSE validateAndEnrich(reply, context)

\* ------------------------------------------------------------------ state
VARIABLES
  currentSession,  \* ChatWorkflowOrchestrator.currentSession (exists = FALSE: null)
  turn,            \* the message being processed: where its handler is suspended,
                   \* its locals, and what it has emitted and invoked so far
  call,            \* the stage-agent execute call that returned last
  overlap,         \* a second message being processed while turn is in flight
  overlaps,        \* messages that began while another one was in flight
  analysis,        \* a call of PlannerAgent.analyze on its own: its arguments,
                   \* what the completion service did, and the value returned
  runs,            \* times the full-workflow command has been started
  workflowState,   \* CausalWorkflowEngine.workflowState (exists = FALSE: null)
  engineRun        \* the engine operation in flight, or the value returned by
                   \* the executeCurrentStage or advanceToNextStage that ran last

vars == <<currentSession, turn, overlap, overlaps, analysis, call, runs, workflowState,
         engineRun>>

chatVars == <<currentSession, turn, overlap, overlaps, runs>>

engineVars == <<workflowState, engineRun>>

NullSession ==
  [exists |-> FALSE, currentStage |-> "formulation",
   sharedContext |-> EmptyContext, conversationHistory |-> <<>>]

\* ChatWorkflowOrchestrator.startNewSession
startNewSession ==
  [exists |-> TRUE, currentStage |-> "formulation",
   sharedContext |-> EmptyContext, conversationHistory |-> <<>>]

NoReply == [shape |-> "none"]

\* The arguments of a suggestNextSteps call: the context and the stage.
SuggestArgs(sess) ==
  [context |-> sess.sharedContext, stage |-> sess.currentStage]

NoRequest == [context |-> EmptyContext, stage |-> "none"]

IdleTurn ==
  [pc |-> "idle", op |-> "none", message |-> <<>>, type |-> "none",
   subtype |-> Undef, handler |-> "none", reply |-> NoReply,
   local |-> EmptyContext, before |-> EmptyContext,
   sink |-> <<>>, missing |-> UndefList, invoked |-> <<>>,
   suggestRequests |-> 0, suggestArgs |-> NoRequest, suggestion |-> "none",
   detached |-> FALSE]

\* The planner called on its own: nothing returned yet.
NoResult ==
  PlannerResult("none", Undef, "false", UndefList, Undef, Undef, UndefList,
                NoPlan, 0, "")

\* again, againContext: the value of a second call with the same message and
\* the context it was handed; missing, invoked: what checkPrerequisites
\* returned for the result and the agents executePlan went on to call.
NoAnalysis ==
  [pc |-> "none", message |-> <<>>, context |-> EmptyContext, llm |-> "none",
   reply |-> NoResult, result |-> NoResult,
   again |-> NoResult, againContext |-> EmptyContext,
   missing |-> UndefList, invoked |-> <<>>]

NoCall ==
  [agent |-> "none", llm |-> "none", ctxIn |-> EmptyContext,
   ret |-> AgentReturn(createSuccessResult(NoData, 0), EmptyContext, 0, 0, "none")]

Called(agent, llm, ctxIn, ret) ==
  [agent |-> agent, llm |-> llm, ctxIn |-> ctxIn, ret |-> ret]

\* CausalWorkflowEngine before initializeWorkflow; of the stage records the
\* status is kept (attempts, result, iterations and the timestamps are
\* written by the engine and never read by it).
NullWorkflow ==
  [exists |-> FALSE, currentStage |-> "formulation",
   status |-> [st \in Stages |-> "pending"],
   sharedContext |-> EmptyContext]

IdleRun ==
  [pc |-> "idle", op |-> "none", reply |-> NoReply, returned |-> "none",
   resets |-> 0]

Init ==
  /\ currentSession = NullSession
  /\ turn = IdleTurn
  /\ overlap = IdleTurn
  /\ overlaps = 0
  /\ analysis = NoAnalysis
  /\ call = NoCall
  /\ runs = 0
  /\ workflowState = NullWorkflow
  /\ engineRun = IdleRun

\* ------------------------------------------------------ prerequisite check
MissingDataset == <<"D", "a", "t", "a", "s", "e", "t", " ", "n", "e", "e", "d", "s", " ", "t", "o", " ", "b", "e", " ", "l", "o", "a", "d", "e", "d">>

MissingFormulation ==
  <<"R", "e", "s", "e", "a", "r", "c", "h", " ", "q", "u", "e", "s", "t", "i", "o", "n", " ", "n", "e", "e", "d", "s", " ", "t", "o", " ", "b", "e", " ", "f", "o", "r", "m", "u", "l", "a", "t", "e", "d", " ", "(", "t", "r", "e", "a", "t", "m", "e", "n", "t", " ", "a", "n", "d", " ", "o", "u", "t", "c", "o", "m", "e", " ", "d", "e", "f", "i", "n", "e", "d", ")">>

MissingEDA == <<"E", "x", "p", "l", "o", "r", "a", "t", "o", "r", "y", " ", "d", "a", "t", "a", " ", "a", "n", "a", "l", "y", "s", "i", "s", " ", "n", "e", "e", "d", "s", " ", "t", "o", " ", "b", "e", " ", "c", "o", "m", "p", "l", "e", "t", "e", "d">>

\* The loop over intent.requiresPriorStages.
RECURSIVE PriorStagesMissing(_, _, _)
PriorStagesMissing(stages, context, missing) ==
  IF stages = <<>> THEN missing
  ELSE LET requiredStage == Head(stages)
           m1 == IF /\ requiredStage = "formulation"
                    /\ (~Truthy(context.treatment) \/ ~Truthy(context.outcome))
                 THEN Append(missing, MissingFormulation) ELSE missing
           m2 == IF requiredStage = "eda" /\ ~Truthy(context.dataset)
                 THEN Append(m1, MissingEDA) ELSE m1
       IN PriorStagesMissing(Tail(stages), context, m2)

\* The loop over executionPlan.prerequisites.
RECURSIVE PlanPrerequisitesMissing(_, _, _)
PlanPrerequisitesMissing(prereqs, context, missing) ==
  IF prereqs = <<>> THEN missing
  ELSE LET prereq == Head(prereqs)
           m1 == IF /\ includes(toLowerCase(prereq), <<"d", "a", "t", "a", "s", "e", "t">>)
                    /\ ~Truthy(context.dataset)
                    /\ ~\E i \in 1..Len(missing) : includes(missing[i], <<"D", "a", "t", "a", "s", "e", "t">>)
                 THEN Append(missing, prereq) ELSE missing
       IN PlanPrerequisitesMissing(Tail(prereqs), context, m1)

\* ChatWorkflowOrchestrator.checkPrerequisites (the plan is present)
checkPrerequisites(plannerResult, context) ==
  LET m0 == IF plannerResult.requiresDataset = "true" /\ ~Truthy(context.dataset)
            THEN <<MissingDataset>> ELSE <<>>
      m1 == IF plannerResult.requiresPriorStages.def
            THEN PriorStagesMissing(plannerResult.requiresPriorStages.val, context, m0)
            ELSE m0
  IN PlanPrerequisitesMissing(plannerResult.plan.prerequisites, context, m1)

\* ------------------------------------------------- dispatch to the agents
Replies(agent) ==
  CASE agent = "formulation" -> FormulationReplies
    [] agent = "eda" -> EDAReplies
    [] agent = "dag" -> DAGReplies
    [] agent = "identification" -> IdentificationReplies
    [] agent = "estimation" -> EstimationReplies

\* agent.execute(task, context); llm = "ok" when the completion call has
\* returned the reply.
Execute(agent, ctx, llm, reply, exec) ==
  [(CASE agent = "formulation" -> FormulationExecute(ctx, llm, reply)
      [] agent = "eda" -> EDAExecute(ctx, llm, reply, exec)
      [] agent = "dag" -> DAGExecute(ctx, llm, reply)
      [] agent = "identification" -> IdentificationExecute(ctx, llm, reply)
      [] agent = "estimation" -> EstimationExecute(ctx, llm, reply, exec))
   EXCEPT !.shape = IF llm = "ok" THEN reply.shape ELSE "none"]

AnyReply(agent) == CHOOSE r \in Replies(agent) : TRUE

\* execute reaches its await this.generate(...) from this context.
CallsCompletion(agent, ctx) ==
  Execute(agent, ctx, "throw", AnyReply(agent), "throw").llmCalls > 0

\* After a reply, execute reaches its await executeCode(...).
CallsExecution(agent, ctx, reply) ==
  Execute(agent, ctx, "ok", reply, "throw").execCalls > 0

\* --------------------------------------- handlers: after the agent returned
\* handleFormulation from "if (result.success && result.data)" on
handleFormulationResult(sess, ret) ==
  LET result == ret.result
      data == result.data
  IN IF result.success /\ HasData(result) THEN
       [session |->
          [sess EXCEPT
             !.sharedContext =
               [ret.ctx EXCEPT
                  !.treatment = IF Truthy(data.treatment) THEN data.treatment ELSE @,
                  !.outcome = IF Truthy(data.outcome) THEN data.outcome ELSE @],
             !.currentStage = "eda"],
        sink |-> <<"assistant">> \o
                 (IF result.suggestedNextSteps > 0 THEN <<"system">> ELSE <<>>)]
     ELSE
       [session |-> [sess EXCEPT !.sharedContext = ret.ctx], sink |-> <<"error">>]

\* handleEDA advancing on every successful result.
handleEDAResultAlwaysAdvancing(sess, ret) ==
  LET result == ret.result
      data == result.data
  IN IF result.success /\ HasData(result) THEN
       [session |->
          [sess EXCEPT !.sharedContext = ret.ctx, !.currentStage = "estimation"],
        sink |-> <<"assistant">> \o
                 (IF Truthy(data.executionOutput) THEN <<"assistant">> ELSE <<>>) \o
                 (IF result.suggestedNextSteps > 0 THEN <<"system">> ELSE <<>>)]
     ELSE
       [session |-> [sess EXCEPT !.sharedContext = ret.ctx], sink |-> <<"error">>]

\* handleEDA from "if (result.success && result.data)" on
handleEDAResult(sess, ret) ==
  LET result == ret.result
      data == result.data
  IN IF result.success /\ HasData(result) THEN
       [session |->
          [sess EXCEPT
             !.sharedContext = ret.ctx,
             !.currentStage = IF Len(data.violations) = 0 THEN "estimation" ELSE @],
        sink |-> <<"assistant">> \o
                 (IF Truthy(data.executionOutput) THEN <<"assistant">> ELSE <<>>) \o
                 (IF result.suggestedNextSteps > 0 THEN <<"system">> ELSE <<>>)]
     ELSE
       [session |-> [sess EXCEPT !.sharedContext = ret.ctx], sink |-> <<"error">>]

\* handleEstimation from "if (result.success && result.data)" on
handleEstimationResult(sess, ret) ==
  LET result == ret.result
      data == result.data
      full == data.kind = "estimation"
  IN IF result.success /\ HasData(result) THEN
       [session |-> [sess EXCEPT !.sharedContext = ret.ctx],
        sink |-> <<"assistant">> \o
                 (IF full /\ Truthy(data.executionOutput) THEN <<"assistant">> ELSE <<>>) \o
                 (IF full THEN <<"assistant">> ELSE <<>>) \o
                 (IF result.suggestedNextSteps > 0 THEN <<"system">> ELSE <<>>)]
     ELSE
       [session |-> [sess EXCEPT !.sharedContext = ret.ctx], sink |-> <<"error">>]

HandleResult(handler, sess, ret) ==
  CASE handler = "formulation" -> handleFormulationResult(sess, ret)
    [] handler = "eda" -> handleEDAResult(sess, ret)
    [] handler = "estimation" -> handleEstimationResult(sess, ret)

\* ------------------------------------ handlers: up to the first suspension
\* What a handler has done when it first suspends or returns: the session,
\* the messages emitted, where the turn waits next, the handler waiting for
\* an agent, the agents invoked and the agent call that already returned.
Progress(sess, sink, pc, handler, invoked, done) ==
  [session |-> sess, sink |-> sink, pc |-> pc, handler |-> handler,
   invoked |-> invoked, call |-> done]

\* Creates the agent and awaits agent.execute(task, sharedContext); when
\* execute returns without reaching the completion service the handler goes
\* on in the same event-loop turn.
StartStage(handler, sess, sink) ==
  LET ctx == sess.sharedContext
  IN IF CallsCompletion(handler, ctx) THEN
       Progress(sess, sink, "generating", handler, <<handler>>, NoCall)
     ELSE
       LET ret == Execute(handler, ctx, "none", AnyReply(handler), "throw")
           after == HandleResult(handler, sess, ret)
       IN Progress(after.session, sink \o after.sink, "suggesting", "none",
                   <<handler>>, Called(handler, "none", ctx, ret))

\* ChatWorkflowOrchestrator.handleFormulation
handleFormulation(sess) == StartStage("formulation", sess, <<"system">>)

\* ChatWorkflowOrchestrator.handleEDA
handleEDA(sess) ==
  IF ~Truthy(sess.sharedContext.dataset)
  THEN Progress(sess, <<"assistant">>, "suggesting", "none", <<>>, NoCall)
  ELSE StartStage("eda", sess, <<"system">>)

\* ChatWorkflowOrchestrator.handleEstimation
handleEstimation(sess) ==
  IF ~Truthy(sess.sharedContext.treatment) \/ ~Truthy(sess.sharedContext.outcome)
  THEN Progress(sess, <<"assistant">>, "suggesting", "none", <<>>, NoCall)
  ELSE StartStage("estimation", sess, <<"system">>)

\* A restart that goes back to Formulation in the session it finds.
handleWorkflowControlKeepingSession(action, sess) ==
  CASE action = "affirmative" ->
         IF ~Truthy(sess.sharedContext.dataset)
         THEN Progress(sess, <<"assistant">>, "suggesting", "none", <<>>, NoCall)
         ELSE IF sess.currentStage = "formulation"
         THEN LET eda == handleEDA(sess)
              IN [eda EXCEPT !.sink = <<"system">> \o @]
         ELSE Progress(sess, <<"system">>, "suggesting", "none", <<>>, NoCall)
    [] action = "restart" ->
         Progress([sess EXCEPT !.currentStage = "formulation"], <<"system">>,
                  "suggesting", "none", <<>>, NoCall)
    [] action = "continue" ->
         Progress(sess, <<"system">>, "suggesting", "none", <<>>, NoCall)
    [] OTHER ->
         Progress(sess, <<"assistant">>, "suggesting", "none", <<>>, NoCall)

\* ChatWorkflowOrchestrator.handleWorkflowControl
handleWorkflowControl(action, sess) ==
  CASE action = "affirmative" ->
         IF ~Truthy(sess.sharedContext.dataset)
         THEN Progress(sess, <<"assistant">>, "suggesting", "none", <<>>, NoCall)
         ELSE IF sess.currentStage = "formulation"
         THEN LET eda == handleEDA(sess)
              IN [eda EXCEPT !.sink = <<"system">> \o @]
         ELSE Progress(sess, <<"system">>, "suggesting", "none", <<>>, NoCall)
    [] action = "restart" ->
         Progress(startNewSession, <<"system">>, "suggesting", "none", <<>>, NoCall)
    [] action = "continue" ->
         Progress(sess, <<"system">>, "suggesting", "none", <<>>, NoCall)
    [] OTHER ->
         Progress(sess, <<"assistant">>, "suggesting", "none", <<>>, NoCall)

\* handleDatasetOperation
handleDatasetOperation(sess) ==
  Progress(sess, <<"system", "assistant">>, "suggesting", "none", <<>>, NoCall)

\* handleGeneralQuestion and handleUnknownIntent: one assistant message.
handleGeneralQuestion(sess) ==
  Progress(sess, <<"assistant">>, "suggesting", "none", <<>>, NoCall)

\* The merge without its test on causalSpec.confounders.
mergeCausalSpecUnguarded(context, plannerResult) ==
  [context EXCEPT
     !.treatment = IF Truthy(plannerResult.treatment)
                   THEN plannerResult.treatment ELSE @,
     !.outcome = IF Truthy(plannerResult.outcome)
                 THEN plannerResult.outcome ELSE @,
     !.confounders = plannerResult.confounders]

\* executePlan, "Update shared context with causal spec"
mergeCausalSpec(context, plannerResult) ==
  [context EXCEPT
     !.treatment = IF Truthy(plannerResult.treatment)
                   THEN plannerResult.treatment ELSE @,
     !.outcome = IF Truthy(plannerResult.outcome)
                 THEN plannerResult.outcome ELSE @,
     !.confounders = IF plannerResult.confounders.def
                     THEN plannerResult.confounders ELSE @]

\* executePlan, the switch on intent.type
route(plannerResult, sess) ==
  CASE plannerResult.type = "formulation" -> handleFormulation(sess)
    [] plannerResult.type = "eda" -> handleEDA(sess)
    [] plannerResult.type = "estimation" -> handleEstimation(sess)
    [] plannerResult.type = "workflow_control" ->
         handleWorkflowControl(OrElse(plannerResult.subtype, "continue"), sess)
    [] plannerResult.type = "dataset_operation" -> handleDatasetOperation(sess)
    [] OTHER -> handleGeneralQuestion(sess)

\* executePlan without the early return on missing prerequisites.
executePlanWithoutShortCircuit(plannerResult, sess) ==
  IF ~plannerResult.plan.def THEN
    [progress |-> Progress(sess, <<"error">>, "idle", "none", <<>>, NoCall),
     missing |-> UndefList]
  ELSE
    LET missingPrereqs == checkPrerequisites(plannerResult, sess.sharedContext)
        merged == [sess EXCEPT
                     !.sharedContext = mergeCausalSpec(@, plannerResult)]
        routed == route(plannerResult, merged)
    IN [progress |->
          [routed EXCEPT
             !.sink = (IF Len(missingPrereqs) > 0 THEN <<"assistant">> ELSE <<>>)
                      \o (IF plannerResult.plan.steps > 1
                          THEN <<"system">> ELSE <<>>) \o @],
        missing |-> List(missingPrereqs)]

\* executePlan merging the planner's causalSpec before it checks the
\* prerequisites.
executePlanMergingFirst(plannerResult, sess) ==
  IF ~plannerResult.plan.def THEN
    [progress |-> Progress(sess, <<"error">>, "idle", "none", <<>>, NoCall),
     missing |-> UndefList]
  ELSE
    LET merged == [sess EXCEPT
                     !.sharedContext = mergeCausalSpec(@, plannerResult)]
        missingPrereqs == checkPrerequisites(plannerResult, sess.sharedContext)
    IN IF Len(missingPrereqs) > 0 THEN
         [progress |-> Progress(merged, <<"assistant">>, "idle", "none", <<>>, NoCall),
          missing |-> List(missingPrereqs)]
       ELSE
         LET routed == route(plannerResult, merged)
         IN [progress |->
               [routed EXCEPT
                  !.sink = (IF plannerResult.plan.steps > 1
                            THEN <<"system">> ELSE <<>>) \o @],
             missing |-> List(missingPrereqs)]

\* ChatWorkflowOrchestrator.executePlan up to its first suspension.  When the
\* planner's object has no executionPlan, checkPrerequisites throws (missing
\* stays undefined) and processUserMessage reports the error.
executePlan(plannerResult, sess) ==
  IF ~plannerResult.plan.def THEN
    [progress |-> Progress(sess, <<"error">>, "idle", "none", <<>>, NoCall),
     missing |-> UndefList]
  ELSE
    LET missingPrereqs == checkPrerequisites(plannerResult, sess.sharedContext)
    IN IF Len(missingPrereqs) > 0 THEN
         [progress |-> Progress(sess, <<"assistant">>, "idle", "none", <<>>, NoCall),
          missing |-> List(missingPrereqs)]
       ELSE
         LET merged == [sess EXCEPT
                          !.sharedContext = mergeCausalSpec(@, plannerResult)]
             routed == route(plannerResult, merged)
         IN [progress |->
               [routed EXCEPT
                  !.sink = (IF plannerResult.plan.steps > 1
                            THEN <<"system">> ELSE <<>>) \o @],
             missing |-> List(missingPrereqs)]

\* ----------------------------------------------------------------- actions
\* The context object a suspended call was handed: the session's own, or the
\* object of the session that a restart has replaced since the call began.
Handed(t, sess) == IF t.detached THEN t.local ELSE sess.sharedContext

\* What the handler sees of an agent's return: the agent has written to the
\* object it was handed, the handler reads this.currentSession.
Seen(t, sess, ret) ==
  IF t.detached THEN [ret EXCEPT !.ctx = sess.sharedContext] ELSE ret

\* startNewSession replaces this.currentSession: a message suspended in the
\* planner or in an agent keeps the context object it passed on.
Detach(t, context) ==
  IF t.op = "processUserMessage" /\ ~t.detached
     /\ t.pc \in {"planning", "generating", "running"}
  THEN [t EXCEPT !.detached = TRUE, !.local = context]
  ELSE t

\* handleWorkflowControl reached its restart branch.
Restarts(plannerResult, p) ==
  /\ p.pc # "idle"
  /\ plannerResult.type = "workflow_control"
  /\ OrElse(plannerResult.subtype, "continue") = "restart"

\* The other message in flight after this step of a message.
Other(t, plannerResult, p, context) ==
  IF Restarts(plannerResult, p) THEN Detach(t, context) ELSE t

\* processUserMessage up to "await this.plannerAgent.analyze(...)": the
\* session and the record of the message.
Received(sess, message) ==
  LET s0 == IF sess.exists THEN sess ELSE startNewSession
      confirm == DatasetConfirmed(message) /\ ~Truthy(s0.sharedContext.dataset)
      s1 == IF confirm
            THEN [s0 EXCEPT !.sharedContext.dataset = "df"] ELSE s0
      s2 == [s1 EXCEPT !.conversationHistory = Append(@, "user")]
  IN [session |-> s2,
      turn |-> [IdleTurn EXCEPT
                  !.pc = "planning", !.op = "processUserMessage",
                  !.message = message,
                  !.before = s0.sharedContext,
                  !.sink = (IF sess.exists THEN <<>> ELSE <<"system">>)
                           \o (IF confirm THEN <<"system">> ELSE <<>>)
                           \o <<"system">>]]

\* The record of a message when executePlan first suspends or returns.
Planned(t, plannerResult, plan, p) ==
  [t EXCEPT
     !.pc = p.pc, !.message = <<>>,
     !.type = plannerResult.type,
     !.subtype = plannerResult.subtype,
     !.handler = p.handler,
     !.sink = @ \o (IF plannerResult.confidence < 70
                    THEN <<"system">> ELSE <<>>) \o p.sink,
     !.missing = plan.missing,
     !.invoked = p.invoked,
     !.suggestRequests = IF p.pc = "suggesting" THEN 1 ELSE 0,
     !.suggestArgs = IF p.pc = "suggesting" THEN SuggestArgs(p.session)
                     ELSE NoRequest,
     !.local = EmptyContext, !.detached = FALSE]

\* The record of a message when its handler awaits suggestNextSteps.
Handled(t, after) ==
  [t EXCEPT !.pc = "suggesting", !.reply = NoReply,
            !.sink = @ \o after.sink,
            !.suggestRequests = 1,
            !.suggestArgs = SuggestArgs(after.session),
            !.local = EmptyContext, !.detached = FALSE]

\* A router that reports a failed suggestion request as an error.
SuggestedReportingFailure(t, outcome) ==
  [t EXCEPT !.pc = "idle",
            !.suggestArgs = NoRequest,
            !.suggestion = outcome,
            !.sink = @ \o (IF outcome = "empty" THEN <<>>
                           ELSE IF outcome = "default" THEN <<"error">>
                           ELSE <<"system">>)]

\* The record of a message when suggestNextSteps has returned: the reply's
\* array, or the stage's default steps when the call or the parse failed.
Suggested(t, outcome) ==
  [t EXCEPT !.pc = "idle",
            !.suggestArgs = NoRequest,
            !.suggestion = outcome,
            !.sink = @ \o (IF outcome = "empty" THEN <<>> ELSE <<"system">>)]

\* processUserMessage up to "await this.plannerAgent.analyze(...)".
ReceiveUserMessage(message) ==
  /\ UNCHANGED <<engineVars, analysis, overlap, overlaps>>
  /\ turn.pc = "idle"
  /\ Len(currentSession.conversationHistory) < MaxHistory
  /\ \E r \in {Received(currentSession, message)} :
        /\ currentSession' = r.session
        /\ turn' = r.turn
  /\ call' = NoCall
  /\ UNCHANGED runs

\* The planner's completion call returns or throws: the rest of analyze, the
\* low-confidence note, then executePlan up to its first suspension.
PlannerReturns(llm, reply) ==
  /\ UNCHANGED <<engineVars, analysis, overlaps>>
  /\ turn.pc = "planning"
  /\ \E plannerResult \in {analyze(turn.message, Handed(turn, currentSession),
                                    llm, reply)} :
     \E plan \in {executePlan(plannerResult, currentSession)} :
     \E p \in {plan.progress} :
        /\ currentSession' = p.session
        /\ turn' = Planned(turn, plannerResult, plan, p)
        /\ overlap' = Other(overlap, plannerResult, p, currentSession.sharedContext)
        /\ call' = p.call
        /\ UNCHANGED runs

\* The stage agent's await this.generate(...) returns or throws.  The agent
\* either goes on to await executeCode(...), or execute returns and the
\* handler runs up to "await this.plannerAgent.suggestNextSteps(...)".
CompletionReturns(llm, reply) ==
  /\ UNCHANGED <<engineVars, analysis, overlap, overlaps>>
  /\ turn.pc = "generating"
  /\ turn.op = "processUserMessage"
  /\ \E ctx \in {Handed(turn, currentSession)} :
        IF llm = "ok" /\ CallsExecution(turn.handler, ctx, reply) THEN
          /\ turn' = [turn EXCEPT !.pc = "running", !.reply = reply]
          /\ UNCHANGED <<currentSession, call, runs>>
        ELSE
          \E ret \in {Execute(turn.handler, ctx, llm, reply, "throw")} :
          \E after \in {HandleResult(turn.handler, currentSession,
                                     Seen(turn, currentSession, ret))} :
             /\ currentSession' = after.session
             /\ turn' = Handled(turn, after)
             /\ call' = Called(turn.handler, llm, ctx, ret)
             /\ UNCHANGED runs

\* The agent's await VSCodeJupyterExecutor.executeCode(...) returns or throws.
ExecutionReturns(exec) ==
  /\ UNCHANGED <<engineVars, analysis, overlap, overlaps>>
  /\ turn.pc = "running"
  /\ turn.op = "processUserMessage"
  /\ \E ctx \in {Handed(turn, currentSession)} :
     \E ret \in {Execute(turn.handler, ctx, "ok", turn.reply, exec)} :
     \E after \in {HandleResult(turn.handler, currentSession,
                                Seen(turn, currentSession, ret))} :
        /\ currentSession' = after.session
        /\ turn' = Handled(turn, after)
        /\ call' = Called(turn.handler, "ok", ctx, ret)
        /\ UNCHANGED runs

\* PlannerAgent.suggestNextSteps returns: the reply's array ("steps", or
\* "empty" for []), or the stage defaults when the call or the parse failed.
SuggestionOutcomes == {"steps", "empty", "default"}

SuggestionsReturn(outcome) ==
  /\ UNCHANGED <<engineVars, analysis, overlap, overlaps>>
  /\ turn.pc = "suggesting"
  /\ turn' = Suggested(turn, outcome)
  /\ UNCHANGED <<currentSession, call, runs>>

\* ------------------------------------------ a second message in flight
\* Messages explored that begin while another one is in flight.
MaxOverlaps == 1

\* Of the second message the record keeps what its next step reads: where
\* it is suspended, its handler, the reply its agent holds and the context
\* object it was handed.  It is dropped when the last step is over.
Retired(t) ==
  IF t.pc = "idle" THEN IdleTurn
  ELSE [IdleTurn EXCEPT !.pc = t.pc, !.op = t.op, !.message = t.message,
                        !.handler = t.handler, !.reply = t.reply,
                        !.local = t.local, !.detached = t.detached]

\* ChatProvider's onDidReceiveMessage callback calls handleUserMessage and
\* does not await it, and processUserMessage tests no flag and takes no
\* queue: a message delivered while another one is suspended at an await
\* starts at once.  overlap is that message; its steps are the steps above.
ReceiveWhileBusy(message) ==
  /\ UNCHANGED <<engineVars, analysis, turn>>
  /\ turn.op = "processUserMessage"
  /\ turn.pc # "idle"
  /\ overlap.pc = "idle"
  /\ overlaps < MaxOverlaps
  /\ overlaps' = overlaps + 1
  /\ Len(currentSession.conversationHistory) < MaxHistory
  /\ \E r \in {Received(currentSession, message)} :
        /\ currentSession' = r.session
        /\ overlap' = Retired(r.turn)
  /\ call' = NoCall
  /\ UNCHANGED runs

OverlapPlannerReturns(llm, reply) ==
  /\ UNCHANGED <<engineVars, analysis, overlaps>>
  /\ overlap.pc = "planning"
  /\ \E plannerResult \in {analyze(overlap.message, Handed(overlap, currentSession),
                                    llm, reply)} :
     \E plan \in {executePlan(plannerResult, currentSession)} :
     \E p \in {plan.progress} :
        /\ currentSession' = p.session
        /\ overlap' = Retired(Planned(overlap, plannerResult, plan, p))
        /\ turn' = Other(turn, plannerResult, p, currentSession.sharedContext)
        /\ call' = p.call
        /\ UNCHANGED runs

OverlapCompletionReturns(llm, reply) ==
  /\ UNCHANGED <<engineVars, analysis, turn, overlaps>>
  /\ overlap.pc = "generating"
  /\ \E ctx \in {Handed(overlap, currentSession)} :
        IF llm = "ok" /\ CallsExecution(overlap.handler, ctx, reply) THEN
          /\ overlap' = Retired([overlap EXCEPT !.pc = "running", !.reply = reply])
          /\ UNCHANGED <<currentSession, call, runs>>
        ELSE
          \E ret \in {Execute(overlap.handler, ctx, llm, reply, "throw")} :
          \E after \in {HandleResult(overlap.handler, currentSession,
                                     Seen(overlap, currentSession, ret))} :
             /\ currentSession' = after.session
             /\ overlap' = Retired(Handled(overlap, after))
             /\ call' = Called(overlap.handler, llm, ctx, ret)
             /\ UNCHANGED runs

OverlapExecutionReturns(exec) ==
  /\ UNCHANGED <<engineVars, analysis, turn, overlaps>>
  /\ overlap.pc = "running"
  /\ \E ctx \in {Handed(overlap, currentSession)} :
     \E ret \in {Execute(overlap.handler, ctx, "ok", overlap.reply, exec)} :
     \E after \in {HandleResult(overlap.handler, currentSession,
                                Seen(overlap, currentSession, ret))} :
        /\ currentSession' = after.session
        /\ overlap' = Retired(Handled(overlap, after))
        /\ call' = Called(overlap.handler, "ok", ctx, ret)
        /\ UNCHANGED runs

OverlapSuggestionsReturn(outcome) ==
  /\ UNCHANGED <<engineVars, analysis, turn, overlaps>>
  /\ overlap.pc = "suggesting"
  /\ overlap' = Retired(Suggested(overlap, outcome))
  /\ UNCHANGED <<currentSession, call, runs>>

\* ------------------------------------------- the Mastra workflow (steps)
\* Where the workflow stands when it suspends or ends: its own sharedContext
\* object, the messages emitted, the step waiting for its agent, the agents
\* invoked, the agent call that returned last, and whether the run is over.
WfProgress(local, sink, pc, handler, invoked, done, finished) ==
  [local |-> local, sink |-> sink, pc |-> pc, handler |-> handler,
   invoked |-> invoked, call |-> done, finished |-> finished]

\* estimationStep after agent.execute returned
wfEstimationResult(ret) ==
  LET result == ret.result
      full == result.data.kind = "estimation"
  IN IF result.success /\ HasData(result)
     THEN <<"assistant">> \o
          (IF full /\ Truthy(result.data.executionOutput) THEN <<"assistant">> ELSE <<>>) \o
          (IF full THEN <<"assistant">> ELSE <<>>)
     ELSE <<"error">>

\* estimationStep up to its agent's first suspension
wfBeginEstimation(local, sink, invoked, done) ==
  LET ctx == [local EXCEPT !.adjustmentSet = List(local.confounders.val)]
  IN IF CallsCompletion("estimation", ctx) THEN
       WfProgress(ctx, sink \o <<"system">>, "generating", "estimation",
                  Append(invoked, "estimation"), done, FALSE)
     ELSE
       LET ret == Execute("estimation", ctx, "none", AnyReply("estimation"), "throw")
       IN WfProgress(ret.ctx, sink \o <<"system">> \o wfEstimationResult(ret),
                     "idle", "none", Append(invoked, "estimation"),
                     Called("estimation", "none", ctx, ret), TRUE)

\* edaStep after agent.execute returned
wfEDAResult(ret) ==
  LET result == ret.result
  IN IF result.success /\ HasData(result)
     THEN <<"assistant">> \o
          (IF Truthy(result.data.executionOutput) THEN <<"assistant">> ELSE <<>>)
     ELSE <<"error">>

\* edaStep up to its agent's first suspension
wfBeginEDA(local, sink, invoked, done) ==
  IF ~Truthy(local.dataset) THEN
    wfBeginEstimation(local, sink \o <<"system", "error">>, invoked, done)
  ELSE IF CallsCompletion("eda", local) THEN
    WfProgress(local, sink \o <<"system">>, "generating", "eda",
               Append(invoked, "eda"), done, FALSE)
  ELSE
    LET ret == Execute("eda", local, "none", AnyReply("eda"), "throw")
    IN wfBeginEstimation(ret.ctx, sink \o <<"system">> \o wfEDAResult(ret),
                         Append(invoked, "eda"),
                         Called("eda", "none", local, ret))

\* formulationStep after agent.execute returned
wfFormulationResult(ret) ==
  LET result == ret.result
  IN IF result.success /\ HasData(result)
     THEN [local |-> [ret.ctx EXCEPT !.treatment = result.data.treatment,
                                     !.outcome = result.data.outcome,
                                     !.confounders = List(<<>>)],
           sink |-> <<"assistant">>]
     ELSE [local |-> ret.ctx, sink |-> <<"error">>]

\* A workflow step's agent returned: the rest of that step and the steps
\* after it, up to the next suspension.
wfContinue(step, ret, sink, invoked, done) ==
  CASE step = "formulation" ->
         LET r == wfFormulationResult(ret)
         IN wfBeginEDA(r.local, sink \o r.sink, invoked, done)
    [] step = "eda" ->
         wfBeginEstimation(ret.ctx, sink \o wfEDAResult(ret), invoked, done)
    [] step = "estimation" ->
         WfProgress(ret.ctx, sink \o wfEstimationResult(ret), "idle", "none",
                    invoked, done, TRUE)

\* executeFullWorkflow after executeCausalWorkflow returned with status
\* success, and the command's closing message.
wfFinish(sess, p) ==
  IF p.finished
  THEN [sess EXCEPT !.sharedContext = p.local, !.currentStage = "estimation"]
  ELSE sess

wfFinishSink(p) == IF p.finished THEN <<"system", "system">> ELSE <<>>

\* How the Mastra run can end apart from running its three steps.
MastraOutcomes == {"run", "failed", "throw"}

\* testMastraWorkflowCommand from "Initialize workflow session with dataset
\* context" on: executeFullWorkflow, executeCausalWorkflow and formulationStep
\* up to the Formulation agent's completion call.  strips: the run hands the
\* steps the context as parsed by SharedContextSchema, which has no dag and
\* no estimate key.
StartFullWorkflow(run, strips) ==
  /\ UNCHANGED <<engineVars, analysis, overlap, overlaps>>
  /\ turn.pc = "idle"
  /\ runs < MaxRuns
  /\ LET s0 == IF currentSession.exists THEN currentSession ELSE startNewSession
         s1 == [s0 EXCEPT !.sharedContext.dataset = "df"]
         local == IF strips
                  THEN [s1.sharedContext EXCEPT !.dag = Undef, !.estimate = Undef]
                  ELSE s1.sharedContext
     IN /\ currentSession' = s1
        /\ call' = NoCall
        /\ runs' = runs + 1
        /\ turn' =
             IF run = "run"
             THEN [IdleTurn EXCEPT
                     !.pc = "generating", !.op = "executeFullWorkflow",
                     !.handler = "formulation", !.local = local,
                     !.sink = <<"system", "system", "system">>,
                     !.invoked = <<"formulation">>]
             ELSE [IdleTurn EXCEPT
                     !.op = "executeFullWorkflow",
                     !.sink = <<"system", "system", "error", "system">>]

\* A workflow step's agent: await this.generate(...) returns or throws.
WfCompletionReturns(llm, reply) ==
  /\ UNCHANGED <<engineVars, analysis, overlap, overlaps>>
  /\ turn.pc = "generating"
  /\ turn.op = "executeFullWorkflow"
  /\ IF llm = "ok" /\ CallsExecution(turn.handler, turn.local, reply) THEN
       /\ turn' = [turn EXCEPT !.pc = "running", !.reply = reply]
       /\ UNCHANGED <<currentSession, call, runs>>
     ELSE
       \E ret \in {Execute(turn.handler, turn.local, llm, reply, "throw")} :
       \E done \in {Called(turn.handler, llm, turn.local, ret)} :
       \E p \in {wfContinue(turn.handler, ret, turn.sink, turn.invoked, done)} :
          /\ currentSession' = wfFinish(currentSession, p)
          /\ turn' = [turn EXCEPT !.pc = p.pc, !.handler = p.handler,
                                  !.local = IF p.finished THEN EmptyContext ELSE p.local,
                                  !.sink = p.sink \o wfFinishSink(p),
                                  !.invoked = p.invoked]
          /\ call' = p.call
          /\ UNCHANGED runs

\* A workflow step's agent: await executeCode(...) returns or throws.
WfExecutionReturns(exec) ==
  /\ UNCHANGED <<engineVars, analysis, overlap, overlaps>>
  /\ turn.pc = "running"
  /\ turn.op = "executeFullWorkflow"
  /\ \E ret \in {Execute(turn.handler, turn.local, "ok", turn.reply, exec)} :
     \E done \in {Called(turn.handler, "ok", turn.local, ret)} :
     \E p \in {wfContinue(turn.handler, ret, turn.sink, turn.invoked, done)} :
        /\ currentSession' = wfFinish(currentSession, p)
        /\ turn' = [turn EXCEPT !.pc = p.pc, !.handler = p.handler,
                                !.reply = NoReply,
                                !.local = IF p.finished THEN EmptyContext ELSE p.local,
                                !.sink = p.sink \o wfFinishSink(p),
                                !.invoked = p.invoked]
        /\ call' = p.call
        /\ UNCHANGED runs

\* ------------------------------------------------- CausalWorkflowEngine
\* Calls of resetToStage explored.
MaxResets == 1

\* CausalWorkflowEngine.initializeWorkflow
initializeWorkflow ==
  [NullWorkflow EXCEPT !.exists = TRUE]

\* executeCurrentStage from "Update stage state based on result" on: the
\* workflow state and the returned success flag.
stageOutcome(ws, ret) ==
  [ws EXCEPT !.sharedContext = ret.ctx,
             !.status[ws.currentStage] =
               IF ret.result.success THEN "completed" ELSE "failed"]

\* advanceToNextStage going round to Formulation from the final stage.
advanceToNextStageWrapping(ws) ==
  IF ~ws.exists THEN [state |-> ws, returned |-> "false"]
  ELSE IF ws.status[ws.currentStage] # "completed"
  THEN [state |-> ws, returned |-> "false"]
  ELSE LET currentIndex == StageRank(ws.currentStage)
       IN [state |-> [ws EXCEPT !.currentStage = WorkflowStage[(currentIndex % Len(WorkflowStage)) + 1]],
           returned |-> "true"]

\* advanceToNextStage without "Only advance if current stage is completed".
advanceToNextStageUnchecked(ws) ==
  IF ~ws.exists THEN [state |-> ws, returned |-> "false"]
  ELSE LET currentIndex == StageRank(ws.currentStage)
       IN IF currentIndex < Len(WorkflowStage)
          THEN [state |-> [ws EXCEPT !.currentStage = WorkflowStage[currentIndex + 1]],
                returned |-> "true"]
          ELSE [state |-> ws, returned |-> "false"]

\* CausalWorkflowEngine.advanceToNextStage: the state and the value returned.
advanceToNextStage(ws) ==
  IF ~ws.exists THEN [state |-> ws, returned |-> "false"]
  ELSE IF ws.status[ws.currentStage] # "completed"
  THEN [state |-> ws, returned |-> "false"]
  ELSE LET currentIndex == StageRank(ws.currentStage)
       IN IF currentIndex < Len(WorkflowStage)
          THEN [state |-> [ws EXCEPT !.currentStage = WorkflowStage[currentIndex + 1]],
                returned |-> "true"]
          ELSE [state |-> ws, returned |-> "false"]

\* The Partial<SharedContext> objects handed to updateSharedContext: the keys
\* present and their values.
UpdateChoices ==
  {[keys |-> {"treatment", "outcome"},
    vals |-> [EmptyContext EXCEPT !.treatment = "T1", !.outcome = "Y1"]],
   [keys |-> {"adjustmentSet"},
    vals |-> [EmptyContext EXCEPT !.adjustmentSet = List(<<"c1">>)]]}

\* CausalWorkflowEngine.updateSharedContext: { ...sharedContext, ...updates }
updateSharedContext(ws, updates) ==
  IF ~ws.exists THEN ws
  ELSE [ws EXCEPT !.sharedContext =
          [f \in DOMAIN ws.sharedContext |->
             IF f \in updates.keys THEN updates.vals[f] ELSE ws.sharedContext[f]]]

\* CausalWorkflowEngine.resetToStage
resetToStage(ws, stage) ==
  IF ~ws.exists THEN ws
  ELSE [ws EXCEPT !.currentStage = stage, !.status[stage] = "pending"]

\* CausalWorkflowEngine.isWorkflowComplete
isWorkflowComplete(ws) ==
  ws.exists /\ ws.status["estimation"] = "completed"

\* CausalWorkflowEngine.getProgress
getProgress(ws) ==
  IF ~ws.exists THEN 0
  ELSE (Cardinality({st \in Stages : ws.status[st] = "completed"}) * 100)
         \div Cardinality(Stages)

\* An engine operation's record when it starts or returns.
Returned == [IdleRun EXCEPT !.resets = engineRun.resets]

EngineInitialize ==
  /\ engineRun.pc = "idle"
  /\ workflowState' = initializeWorkflow
  /\ engineRun' = Returned
  /\ call' = NoCall
  /\ UNCHANGED <<chatVars, analysis>>

\* executeCurrentStage up to the agent's completion call; when the agent
\* returns without calling the service, up to the return.
EngineExecuteCurrentStage ==
  /\ engineRun.pc = "idle"
  /\ UNCHANGED <<chatVars, analysis>>
  /\ IF ~workflowState.exists THEN
       /\ engineRun' = [Returned EXCEPT !.op = "executeCurrentStage",
                                       !.returned = "throw"]
       /\ UNCHANGED <<workflowState, call>>
     ELSE
       LET stage == workflowState.currentStage
           ctx == workflowState.sharedContext
           ws == [workflowState EXCEPT !.status[stage] = "in_progress"]
       IN /\ IF CallsCompletion(stage, ctx) THEN
               /\ workflowState' = ws
               /\ engineRun' = [Returned EXCEPT !.pc = "generating",
                                               !.op = "executeCurrentStage"]
               /\ call' = NoCall
             ELSE
               LET ret == Execute(stage, ctx, "none", AnyReply(stage), "throw")
               IN /\ workflowState' = stageOutcome(ws, ret)
                  /\ engineRun' =
                       [Returned EXCEPT
                          !.op = "executeCurrentStage",
                          !.returned = IF ret.result.success THEN "true" ELSE "false"]
                  /\ call' = Called(stage, "none", ctx, ret)

\* The stage agent's await this.generate(...) returns or throws.
EngineCompletionReturns(llm, reply) ==
  /\ engineRun.pc = "generating"
  /\ UNCHANGED <<chatVars, analysis>>
  /\ LET stage == workflowState.currentStage
         ctx == workflowState.sharedContext
     IN IF llm = "ok" /\ CallsExecution(stage, ctx, reply) THEN
          /\ engineRun' = [engineRun EXCEPT !.pc = "running", !.reply = reply]
          /\ UNCHANGED <<workflowState, call>>
        ELSE
          LET ret == Execute(stage, ctx, llm, reply, "throw")
          IN /\ workflowState' = stageOutcome(workflowState, ret)
             /\ engineRun' =
                  [Returned EXCEPT
                     !.op = "executeCurrentStage",
                     !.returned = IF ret.result.success THEN "true" ELSE "false"]
             /\ call' = Called(stage, llm, ctx, ret)

\* The stage agent's await executeCode(...) returns or throws.
EngineExecutionReturns(exec) ==
  /\ engineRun.pc = "running"
  /\ UNCHANGED <<chatVars, analysis>>
  /\ LET stage == workflowState.currentStage
         ctx == workflowState.sharedContext
         ret == Execute(stage, ctx, "ok", engineRun.reply, exec)
     IN /\ workflowState' = stageOutcome(workflowState, ret)
        /\ engineRun' =
             [Returned EXCEPT
                !.op = "executeCurrentStage",
                !.returned = IF ret.result.success THEN "true" ELSE "false"]
        /\ call' = Called(stage, "ok", ctx, ret)

EngineAdvance ==
  /\ engineRun.pc = "idle"
  /\ LET r == advanceToNextStage(workflowState)
     IN /\ workflowState' = r.state
        /\ engineRun' = [Returned EXCEPT !.op = "advanceToNextStage",
                                        !.returned = r.returned]
  /\ call' = NoCall
  /\ UNCHANGED <<chatVars, analysis>>

EngineUpdateSharedContext(updates) ==
  /\ engineRun.pc = "idle"
  /\ workflowState' = updateSharedContext(workflowState, updates)
  /\ engineRun' = Returned
  /\ call' = NoCall
  /\ UNCHANGED <<chatVars, analysis>>

EngineResetToStage(stage) ==
  /\ engineRun.pc = "idle"
  /\ engineRun.resets < MaxResets
  /\ workflowState' = resetToStage(workflowState, stage)
  /\ engineRun' = [Returned EXCEPT !.resets = @ + 1]
  /\ call' = NoCall
  /\ UNCHANGED <<chatVars, analysis>>

NextEngine ==
  \/ EngineInitialize
  \/ EngineExecuteCurrentStage
  \/ \E llm \in {"ok", "throw"} :
       \E reply \in Replies(workflowState.currentStage) :
         EngineCompletionReturns(llm, reply)
  \/ \E exec \in ExecOutcomes : EngineExecutionReturns(exec)
  \/ EngineAdvance
  \/ \E updates \in UpdateChoices : EngineUpdateSharedContext(updates)
  \/ \E stage \in Stages : EngineResetToStage(stage)

SpecEngine == Init /\ [][NextEngine]_vars

Next ==
  \/ \E message \in ChatMessages : ReceiveUserMessage(message)
  \/ \E llm \in PlannerFailures : PlannerReturns(llm, AnyReply("formulation"))
  \/ \E reply \in PlannerReplies : PlannerReturns("ok", reply)
  \/ \E llm \in {"ok", "throw"} :
       \E reply \in Replies(IF turn.pc = "generating" THEN turn.handler
                            ELSE "formulation") :
         CompletionReturns(llm, reply)
  \/ \E exec \in ExecOutcomes : ExecutionReturns(exec)
  \/ \E outcome \in SuggestionOutcomes : SuggestionsReturn(outcome)
  \/ \E run \in MastraOutcomes, strips \in BOOLEAN : StartFullWorkflow(run, strips)
  \/ \E llm \in {"ok", "throw"} :
       \E reply \in Replies(IF turn.pc = "generating" THEN turn.handler
                            ELSE "formulation") :
         WfCompletionReturns(llm, reply)
  \/ \E exec \in ExecOutcomes : WfExecutionReturns(exec)

Spec == Init /\ [][Next]_vars

\* The planner's parsed replies drawn from while two messages are in flight:
\* for each intent but the restart, the reply that names both variables, asks
\* for no dataset and plans one step without prerequisites.
OverlapReplies ==
  {r \in PlannerReplies :
     /\ r.plan = Plan(1, <<>>)
     /\ r.subtype # "restart"
     /\ r.treatment = "T1"
     /\ r.confounders = UndefList
     /\ r.requiresDataset = "false"
     /\ r.requiresPriorStages = CHOOSE q \in PriorChoices(r.type) : TRUE}

\* The chat with messages delivered as the webview posts them, two at most
\* in flight.
NextOverlap ==
  \/ \E message \in ChatMessages : ReceiveUserMessage(message)
  \/ \E message \in ChatMessages : ReceiveWhileBusy(message)
  \/ \E llm \in PlannerFailures : PlannerReturns(llm, AnyReply("formulation"))
  \/ \E llm \in PlannerFailures : OverlapPlannerReturns(llm, AnyReply("formulation"))
  \/ \E reply \in OverlapReplies : PlannerReturns("ok", reply)
  \/ \E reply \in OverlapReplies : OverlapPlannerReturns("ok", reply)
  \/ \E llm \in {"ok", "throw"} :
       \E reply \in Replies(IF turn.pc = "generating" THEN turn.handler
                            ELSE "formulation") :
         CompletionReturns(llm, reply)
  \/ \E llm \in {"ok", "throw"} :
       \E reply \in Replies(IF overlap.pc = "generating" THEN overlap.handler
                            ELSE "formulation") :
         OverlapCompletionReturns(llm, reply)
  \/ \E exec \in ExecOutcomes : ExecutionReturns(exec)
  \/ \E exec \in ExecOutcomes : OverlapExecutionReturns(exec)
  \/ \E outcome \in SuggestionOutcomes : SuggestionsReturn(outcome)
  \/ \E outcome \in SuggestionOutcomes : OverlapSuggestionsReturn(outcome)

SpecOverlap == Init /\ [][NextOverlap]_vars

\* The planner's replies that ask for a restart and name no variable.
RestartReplies ==
  {r \in PlannerReplies :
     /\ r.subtype = "restart"
     /\ r.plan = Plan(1, <<>>)
     /\ ~Truthy(r.treatment)}

\* A research question whose Formulation agent is still awaited when the
\* user asks for a restart: the planner falls back for the question and
\* answers for the restart.
NextRestart ==
  \/ ReceiveUserMessage(MsgAspirin)
  \/ ReceiveWhileBusy(MsgRestart)
  \/ \E llm \in PlannerFailures : PlannerReturns(llm, AnyReply("formulation"))
  \/ \E reply \in RestartReplies : OverlapPlannerReturns("ok", reply)
  \/ \E llm \in {"ok", "throw"} :
       \E reply \in Replies(IF turn.pc = "generating" THEN turn.handler
                            ELSE "formulation") :
         CompletionReturns(llm, reply)
  \/ \E outcome \in SuggestionOutcomes : SuggestionsReturn(outcome)
  \/ \E outcome \in SuggestionOutcomes : OverlapSuggestionsReturn(outcome)

SpecRestart == Init /\ [][NextRestart]_vars

\* ------------------------------------------------ the planner on its own
\* The contexts analyze is handed: a new session's, one with the variables
\* named, one with a dataset and a confounder as well, one with a dataset
\* only, and one that names a treatment without an outcome.
AnalysisContexts ==
  {EmptyContext,
   [EmptyContext EXCEPT !.treatment = "T0", !.outcome = "Y0"],
   [EmptyContext EXCEPT !.treatment = "T0", !.outcome = "Y0",
                        !.dataset = "df", !.confounders = List(<<"c0">>)],
   [EmptyContext EXCEPT !.dataset = "df"],
   [EmptyContext EXCEPT !.treatment = "T0"]}

PrereqDatasetFile == <<"d", "a", "t", "a", "s", "e", "t", " ", "f", "i", "l", "e">>

\* The planner's replies explored here: those of the chat, one that names a
\* prior stage twice and one whose plan lists a prerequisite twice.
AnalysisReplies ==
  PlannerReplies \cup
  {PlannerResult("estimation", Undef, "true",
                 List(<<"formulation", "formulation">>), Undef, Undef,
                 UndefList, Plan(1, <<>>), 90, "llm reasoning"),
   PlannerResult("general_question", Undef, "false", List(<<>>), Undef, Undef,
                 UndefList, Plan(1, <<PrereqDatasetFile, PrereqDatasetFile>>),
                 90, "llm reasoning")}

\* The arguments of one call of analyze and what its completion call does.
InitAnalysis ==
  /\ currentSession = NullSession
  /\ turn = IdleTurn
  /\ overlap = IdleTurn
  /\ overlaps = 0
  /\ call = NoCall
  /\ runs = 0
  /\ workflowState = NullWorkflow
  /\ engineRun = IdleRun
  /\ \E message \in Messages, context \in AnalysisContexts :
       \/ \E llm \in PlannerFailures :
            analysis = [NoAnalysis EXCEPT !.pc = "called", !.message = message,
                                          !.context = context, !.llm = llm]
       \/ \E reply \in AnalysisReplies :
            analysis = [NoAnalysis EXCEPT !.pc = "called", !.message = message,
                                          !.context = context, !.llm = "ok",
                                          !.reply = reply]

\* PlannerAgent.analyze returns.
AnalyzeReturns ==
  /\ analysis.pc = "called"
  /\ analysis' = [analysis EXCEPT
                    !.pc = "returned",
                    !.result = analyze(analysis.message, analysis.context,
                                       analysis.llm, analysis.reply)]
  /\ UNCHANGED <<chatVars, engineVars, call>>

\* The same message analysed once more, in any context, while the completion
\* service is still failing.
AnalyzeAgain(context, llm) ==
  /\ analysis.pc = "returned"
  /\ analysis.llm \in PlannerFailures
  /\ analysis' = [analysis EXCEPT
                    !.pc = "repeated",
                    !.againContext = context,
                    !.again = analyze(analysis.message, context, llm,
                                      analysis.reply)]
  /\ UNCHANGED <<chatVars, engineVars, call>>

\* processUserMessage goes on with the result: executePlan up to its first
\* suspension, on a session whose context is the one analyze was handed.
ExecutePlanBegins ==
  /\ analysis.pc = "returned"
  /\ \E plan \in {executePlan(analysis.result,
                               [startNewSession EXCEPT
                                  !.sharedContext = analysis.context])} :
       analysis' = [analysis EXCEPT !.pc = "planned",
                                    !.missing = plan.missing,
                                    !.invoked = plan.progress.invoked]
  /\ UNCHANGED <<chatVars, engineVars, call>>

NextAnalysis ==
  \/ AnalyzeReturns
  \/ \E context \in AnalysisContexts, llm \in PlannerFailures :
       AnalyzeAgain(context, llm)
  \/ ExecutePlanBegins

SpecAnalysis == InitAnalysis /\ [][NextAnalysis]_vars

\* ================================================================ properties
\* A stage agent's result reaches the chat router in this step.
AgentResultArrives ==
  /\ turn'.op = "processUserMessage"
  /\ call = NoCall
  /\ call' # NoCall

\* The chat turn is over or only waits for the next-step suggestions.
TurnSettled ==
  /\ turn.op = "processUserMessage"
  /\ turn.pc \in {"suggesting", "idle"}

\* The agent call that returned last failed in the completion service.
CompletionFailed == call.agent # "none" /\ call.llm = "throw"

\* The required context fields of the agent called last were missing.
RequiredFieldsMissing ==
  \/ /\ call.agent \in {"eda", "dag", "estimation"}
     /\ (~Truthy(call.ctxIn.treatment) \/ ~Truthy(call.ctxIn.outcome))
  \/ /\ call.agent = "identification"
     /\ \/ ~Truthy(call.ctxIn.dag)
        \/ ~Truthy(call.ctxIn.treatment)
        \/ ~Truthy(call.ctxIn.outcome)

\* C1: when the prerequisite check of a user message returns a non-empty
\* list, no stage agent is invoked for that message; the router emits the
\* list (one assistant message) and the turn ends.
C1_NoDispatchWhilePrerequisitesMissing ==
  (turn.op = "processUserMessage" /\ turn.missing.def
     /\ Len(turn.missing.val) > 0)
  => /\ turn.invoked = <<>>
     /\ call = NoCall
     /\ turn.pc = "idle"
     /\ turn.sink[Len(turn.sink)] = "assistant"

C1_Witness ==
  /\ turn.op = "processUserMessage"
  /\ turn.type \in StageIntentTypes
  /\ turn.missing.def
  /\ Len(turn.missing.val) > 0

\* C2: every change of currentStage made by a stage handler after an agent
\* result moves to a later stage of the fixed order and stays within it.
C2_AutoAdvanceMovesForward ==
  [][(AgentResultArrives
        /\ currentSession'.currentStage # currentSession.currentStage)
     => /\ currentSession'.currentStage \in Stages
        /\ StageRank(currentSession'.currentStage)
             > StageRank(currentSession.currentStage)]_vars

\* C3: when the stage agent's result has requiresIteration = true, the
\* router leaves currentStage as it was in that turn.
C3_IterationKeepsStage ==
  [][(AgentResultArrives /\ call'.ret.result.requiresIteration)
     => currentSession'.currentStage = currentSession.currentStage]_vars

\* C4: an EDA result with at least one critical violation has
\* requiresIteration = true and the EDA handler leaves currentStage alone
\* (it does not set Estimation).
C4_CriticalViolationBlocks ==
  [][(AgentResultArrives /\ call'.agent = "eda"
        /\ call'.ret.result.data.kind = "eda"
        /\ CountIn(call'.ret.result.data.violations, {"critical"}) > 0)
     => /\ call'.ret.result.requiresIteration
        /\ currentSession'.currentStage = currentSession.currentStage]_vars

C4_Witness ==
  /\ turn.op = "processUserMessage"
  /\ call.agent = "eda"
  /\ call.ret.result.data.kind = "eda"
  /\ CountIn(call.ret.result.data.violations, {"critical"}) > 0
  /\ currentSession.currentStage = "formulation"

\* C5: a successful EDA result whose violations are all moderate or minor
\* makes the router advance currentStage to Estimation.
C5_OnlyCriticalBlocks ==
  [][(AgentResultArrives /\ call'.agent = "eda"
        /\ call'.ret.result.success
        /\ call'.ret.result.data.kind = "eda"
        /\ CountIn(call'.ret.result.data.violations, {"critical"}) = 0)
     => currentSession'.currentStage = "estimation"]_vars

\* C6: when the dispatched agent's completion call throws, the agent returns
\* success = false with error set, the turn shows exactly one error message,
\* and the SharedContext after the turn equals the one before it.
C6_FailedCompletionLeavesTurnClean ==
  (TurnSettled /\ CompletionFailed)
  => /\ ~call.ret.result.success
     /\ Truthy(call.ret.result.error)
     /\ CountIn(turn.sink, {"error"}) = 1
     /\ currentSession.sharedContext = turn.before

\* C7: execute of each stage agent never raises; when its completion call
\* fails it returns success = false with error set and the context it was
\* handed is as it was at the call.
C7_ExecuteContainsCompletionFailure ==
  /\ ~call.ret.raised
  /\ CompletionFailed
       => /\ ~call.ret.result.success
          /\ Truthy(call.ret.result.error)
          /\ call.ret.ctx = call.ctxIn

C7_Witness ==
  /\ CompletionFailed
  /\ call.agent = "identification"
  /\ engineRun.returned = "false"

\* C8: sharedContext.confounders of the session is always a defined list.
C8_ConfoundersDefined ==
  currentSession.sharedContext.confounders.def

C8_Witness ==
  /\ currentSession.exists
  /\ runs > 0
  /\ turn.op = "processUserMessage"
  /\ turn.pc = "idle"
  /\ turn.type = "estimation"
  /\ currentSession.sharedContext.confounders = List(<<"c1">>)

\* C9: every AgentResult has error set when success = false and feedback set
\* when requiresIteration = true.
C9_ResultShape ==
  call.agent # "none"
  => /\ ~call.ret.result.success => Truthy(call.ret.result.error)
     /\ call.ret.result.requiresIteration
          => /\ call.ret.result.feedback.type # "none"
             /\ call.ret.result.feedback.message # ""

C9_Witness ==
  /\ call.agent = "estimation"
  /\ call.ret.result.requiresIteration
  /\ workflowState.status["estimation"] = "completed"

\* C10: an agent whose required context fields are missing returns
\* success = false with a remediation hint, calls neither service and leaves
\* the context as it was.
C10_MissingFieldsRejected ==
  RequiredFieldsMissing
  => /\ ~call.ret.result.success
     /\ Truthy(call.ret.result.feedback.suggestedAction)
     /\ call.ret.llmCalls = 0
     /\ call.ret.execCalls = 0
     /\ call.ret.ctx = call.ctxIn

C10_Witness ==
  /\ call.agent = "identification"
  /\ Truthy(call.ctxIn.treatment)
  /\ Truthy(call.ctxIn.outcome)
  /\ ~Truthy(call.ctxIn.dag)
  /\ workflowState.status["identification"] = "failed"

\* The estimation agent was called last with treatment and outcome set and
\* the adjustment set missing or empty.
AdjustmentSetMissing ==
  /\ call.agent = "estimation"
  /\ Truthy(call.ctxIn.treatment)
  /\ Truthy(call.ctxIn.outcome)
  /\ (~call.ctxIn.adjustmentSet.def \/ Len(call.ctxIn.adjustmentSet.val) = 0)

\* C11: with treatment and outcome set and the adjustment set missing or
\* empty, the Estimation agent returns success = true, requiresIteration =
\* true and a warning feedback, calls neither the completion service nor the
\* execution service, and does not set context.estimate.
C11_NoAdjustmentSetAsksForIteration ==
  AdjustmentSetMissing
  => /\ call.ret.result.success
     /\ call.ret.result.requiresIteration
     /\ call.ret.result.feedback.type = "warning"
     /\ call.ret.result.feedback.message # ""
     /\ call.ret.llmCalls = 0
     /\ call.ret.execCalls = 0
     /\ call.ret.ctx.estimate = call.ctxIn.estimate

C11_Witness ==
  /\ AdjustmentSetMissing
  /\ engineRun.op = "executeCurrentStage"
  /\ engineRun.returned = "true"
  /\ workflowState.currentStage = "estimation"

\* A message is being processed: one of its steps has begun and its last
\* step has not completed.
InFlight(t) == t.op = "processUserMessage" /\ t.pc # "idle"

\* C12: message processing is serialized: no step of a second message
\* begins before every step of the first has completed, also when the second
\* arrives while a completion call of the first is outstanding.
C12_MessagesSerialized ==
  ~(InFlight(turn) /\ InFlight(overlap))

\* Calls to the code-execution service issued and not yet returned.
OutstandingExecutions ==
  (IF turn.op = "processUserMessage" /\ turn.pc = "running" THEN 1 ELSE 0)
  + (IF overlap.op = "processUserMessage" /\ overlap.pc = "running" THEN 1 ELSE 0)

\* C13: at most one call to the code-execution service is outstanding, and
\* no message's agent issues a second execution call after the first one
\* failed or timed out.
C13_OneExecutionAtATime ==
  /\ OutstandingExecutions <= 1
  /\ call.ret.execCalls <= 1

\* C14: handling a workflow_control intent (restart, continue or
\* affirmative) invokes no stage agent, whatever the stage and the context.
C14_ControlInvokesNoAgent ==
  (turn.op = "processUserMessage" /\ turn.type = "workflow_control")
  => turn.invoked = <<>>

\* The prerequisites of the message were satisfied and its handler returned.
HandlerReturned(t) ==
  /\ t.op = "processUserMessage"
  /\ t.missing.def
  /\ Len(t.missing.val) = 0
  /\ t.pc \in {"suggesting", "idle"}

\* C15: for a message whose prerequisites are satisfied the router requests
\* next-step suggestions exactly once after the handler returns (stage
\* handlers and workflow_control alike), with the session's context and stage
\* as the handler left them; the request's return, failed or not, adds no
\* error message and changes nothing in the session.
C15_SuggestionsRequestedOnce ==
  [][/\ HandlerReturned(turn') => turn'.suggestRequests = 1
     /\ (turn'.op = "processUserMessage" /\ turn'.pc \in {"generating", "running"})
          => turn'.suggestRequests = 0
     /\ (turn'.op = "processUserMessage" /\ turn.pc # "suggesting"
           /\ turn'.pc = "suggesting")
          => turn'.suggestArgs = SuggestArgs(currentSession')
     /\ (turn.pc = "suggesting" /\ turn'.pc = "idle")
          => /\ currentSession' = currentSession
             /\ CountIn(turn'.sink, {"error"}) = CountIn(turn.sink, {"error"})]_vars

C15_Witness ==
  /\ HandlerReturned(turn)
  /\ turn.pc = "idle"
  /\ turn.type = "workflow_control"
  /\ turn.suggestion = "default"
  /\ turn.suggestRequests = 1

\* The completion call of the agent called last returned a reply.
ReplyParsed == call.agent # "none" /\ call.llm = "ok" /\ call.ret.llmCalls > 0

\* C16: within one stage-agent call, when the strict JSON parse of the reply
\* succeeds the data is the strict parser's and the fallback parsers are not
\* invoked.
C16_StrictParseSkipsFallback ==
  (ReplyParsed /\ call.ret.shape = "json") => call.ret.parser = "strict"

C16_Witness ==
  /\ ReplyParsed
  /\ call.agent = "formulation"
  /\ call.ret.shape = "json"
  /\ call.ret.result.data.treatment = "T1"
  /\ workflowState.status["formulation"] = "completed"

\* The diagnostic or warning entries in an agent's data.
Diagnostics(data) ==
  CASE data.kind = "formulation" -> data.issues
    [] data.kind = "eda" -> IF data.degraded THEN 1 ELSE 0
    [] data.kind = "dag" -> data.issues
    [] data.kind = "identification" -> data.warnings
    [] data.kind = "estimation" -> data.limitations
    [] OTHER -> 0

\* C17: when the completion call succeeds and the reply cannot be strictly
\* parsed, execute of every stage agent returns success = true with data
\* that holds a diagnostic or warning entry.
C17_ParseFailureDegrades ==
  (ReplyParsed /\ call.ret.shape \in {"text", "badjson"})
  => /\ call.ret.result.success
     /\ Diagnostics(call.ret.result.data) > 0

\* The intent types of the PlannerIntent interface.
IntentTypes ==
  {"formulation", "eda", "estimation", "dag", "identification",
   "general_question", "workflow_control", "dataset_operation"}

\* The planner's completion call threw, or its reply held no JSON object or
\* a block that is not valid JSON.
CompletionUnusable == analysis.llm \in {"throw", "nojson", "badjson"}

\* C18: analyze always returns a PlannerResult; when the completion service
\* is unreachable, or its reply holds no JSON object or unparseable JSON, the
\* result is the one of the keyword classifier for the message and context.
C18_AnalyzeFallsBack ==
  analysis.pc = "returned"
  => /\ analysis.result.type \in IntentTypes
     /\ CompletionUnusable
          => /\ analysis.result = fallbackAnalysis(analysis.message, analysis.context)
             /\ analysis.result.plan.def

C18_Witness ==
  /\ analysis.pc = "returned"
  /\ analysis.llm = "nojson"
  /\ analysis.message = MsgEstimate
  /\ analysis.result.type = "estimation"

\* A list of stages names the Formulation stage.
NamesFormulation(stages) ==
  stages.def /\ \E i \in 1..Len(stages.val) : stages.val[i] = "formulation"

\* C19: every result of analyze with intent type estimation has the
\* Formulation stage in requiresPriorStages, whatever the reply contained.
C19_EstimationRequiresFormulation ==
  (analysis.pc = "returned" /\ analysis.result.type = "estimation")
  => NamesFormulation(analysis.result.requiresPriorStages)

C19_Witness ==
  /\ analysis.pc = "returned"
  /\ analysis.llm = "ok"
  /\ analysis.reply.type = "estimation"
  /\ ~NamesFormulation(analysis.reply.requiresPriorStages)
  /\ NamesFormulation(analysis.result.requiresPriorStages)

\* C20: every result of analyze with intent type eda has requiresDataset =
\* true, whether the reply gave true, false or no value for it.
C20_EdaRequiresDataset ==
  (analysis.pc = "returned" /\ analysis.result.type = "eda")
  => analysis.result.requiresDataset = "true"


\* analyze has returned what the keyword classifier made of the message.
FellBack == analysis.pc \in {"returned", "repeated", "planned"} /\ analysis.llm \in PlannerFailures

FallbackOrder == <<"greeting", "help", "affirmative", "causal", "exploration", "estimation", "generic">>

MatchesPattern(branch, lowerMsg) ==
  CASE branch = "greeting" -> GreetingPattern(lowerMsg)
    [] branch = "help" -> HelpPattern(lowerMsg)
    [] branch = "affirmative" -> AffirmativePattern(lowerMsg)
    [] branch = "causal" -> CausalPattern(lowerMsg)
    [] branch = "exploration" -> ExplorationPattern(lowerMsg)
    [] branch = "estimation" -> EstimationPattern(lowerMsg)
    [] OTHER -> TRUE

\* The patterns of the priority order that the message matches.
PatternsMatched(message) ==
  {k \in 1..Len(FallbackOrder) : MatchesPattern(FallbackOrder[k], toLowerCase(message))}

EarliestPattern(message) ==
  FallbackOrder[CHOOSE k \in PatternsMatched(message) : \A j \in PatternsMatched(message) : k <= j]

\* The intent type and subtype each pattern stands for.
PatternIntent(branch) ==
  CASE branch = "greeting" -> <<"general_question", "greeting">>
    [] branch = "help" -> <<"general_question", "help">>
    [] branch = "affirmative" -> <<"workflow_control", "affirmative">>
    [] branch = "causal" -> <<"formulation", Undef>>
    [] branch = "exploration" -> <<"eda", Undef>>
    [] branch = "estimation" -> <<"estimation", Undef>>
    [] OTHER -> <<"general_question", Undef>>

\* C21: the keyword classifier gives a message the intent of the earliest
\* pattern it matches in the order greeting, help, affirmative, causal
\* question, exploration, estimation, generic question; an affirmative is
\* never a generic question and a greeting is never a stage intent.
C21_FallbackPriorityOrder ==
  FellBack =>
    /\ <<analysis.result.type, analysis.result.subtype>> = PatternIntent(EarliestPattern(analysis.message))
    /\ (3 \in PatternsMatched(analysis.message) => analysis.result.type # "general_question")
    /\ (1 \in PatternsMatched(analysis.message) => analysis.result.type \notin StageIntentTypes)

\* A message that greets and asks for exploration was classified.
C21_Witness ==
  /\ FellBack
  /\ {1, 5} \subseteq PatternsMatched(analysis.message)
  /\ analysis.result.subtype = "greeting"

\* C22: every result of the keyword classifier has confidence at most 0.6
\* and the reasoning string that says it is a fallback.
C22_FallbackLowConfidence ==
  FellBack =>
    /\ analysis.result.confidence <= 60
    /\ analysis.result.reasoning = FallbackReasoning

\* C23: the keyword classifier called twice with the same message, in any
\* two contexts, yields the same intent type.
C23_FallbackDeterministic ==
  analysis.pc = "repeated" => analysis.again.type = analysis.result.type

\* A message classified with confidence at least 0.7 was classified again
\* in another context.
C23_Witness ==
  /\ analysis.pc = "repeated"
  /\ analysis.againContext # analysis.context
  /\ analysis.result.confidence >= 70
  /\ analysis.again.type = "workflow_control"

\* C24: a message that is exactly one affirmative token, in any case, is
\* classified workflow_control / affirmative with confidence 0.85.
C24_AffirmativeToken ==
  FellBack /\ analysis.message \in {MsgY, MsgYes} =>
    /\ analysis.result.type = "workflow_control"
    /\ analysis.result.subtype = "affirmative"
    /\ analysis.result.confidence = 85

\* The message "y" was classified by the keyword classifier.
C24_Witness ==
  /\ FellBack
  /\ analysis.message = MsgY
  /\ analysis.result.subtype = "affirmative"

TreatmentAndOutcomeMustBeDefined ==
  <<"t", "r", "e", "a", "t", "m", "e", "n", "t", " ", "a", "n", "d", " ", "o", "u", "t", "c", "o", "m", "e", " ", "m", "u", "s", "t", " ", "b", "e", " ", "d", "e", "f", "i", "n", "e", "d">>

\* C25: for "estimate the effect" in a context without a treatment the
\* prerequisite check returns the one-element list
\* ["treatment and outcome must be defined"] and the Estimation agent is not
\* invoked.
C25_EstimateWithoutTreatment ==
  /\ analysis.pc = "planned"
  /\ analysis.llm \in PlannerFailures
  /\ analysis.message = MsgEstimate
  /\ ~Truthy(analysis.context.treatment)
  => /\ analysis.missing = List(<<TreatmentAndOutcomeMustBeDefined>>)
     /\ \A k \in 1..Len(analysis.invoked) : analysis.invoked[k] # "estimation"

\* C26: "Does aspirin reduce heart attacks?" analysed with an empty context
\* gives a formulation intent that requires no dataset and a causalSpec
\* with a treatment and an outcome, also on the keyword fallback.
C26_AspirinQuestion ==
  /\ FellBack
  /\ analysis.message = MsgAspirin
  /\ analysis.context = EmptyContext
  => /\ analysis.result.type = "formulation"
     /\ analysis.result.requiresDataset = "false"
     /\ Truthy(analysis.result.treatment)
     /\ Truthy(analysis.result.outcome)

\* A dataset the intent requires is absent from the context.
RequiredDatasetAbsent(r, context) ==
  r.requiresDataset = "true" /\ ~Truthy(context.dataset)

\* A stage the intent requires lacks its defining fields.
RequiredStageLacking(r, context) ==
  /\ r.requiresPriorStages.def
  /\ \E k \in 1..Len(r.requiresPriorStages.val) :
       \/ /\ r.requiresPriorStages.val[k] = "formulation"
          /\ ~(Truthy(context.treatment) /\ Truthy(context.outcome))
       \/ /\ r.requiresPriorStages.val[k] = "eda"
          /\ ~Truthy(context.dataset)

\* C27: the prerequisite checker's list is non-empty exactly when a required
\* dataset is absent or a required prior stage lacks its defining fields.
C27_MissingIffRequirementUnmet ==
  analysis.pc = "planned" /\ analysis.missing.def =>
    (Len(analysis.missing.val) > 0 <=>
       \/ RequiredDatasetAbsent(analysis.result, analysis.context)
       \/ RequiredStageLacking(analysis.result, analysis.context))

\* C28: the prerequisite checker's list never holds the same string twice.
C28_MissingHasNoDuplicates ==
  analysis.pc = "planned" /\ analysis.missing.def =>
    \A j, k \in 1..Len(analysis.missing.val) :
      analysis.missing.val[j] = analysis.missing.val[k] => j = k

\* Every field set in context a is set in context b, and every confounder of
\* a is a confounder of b.
Extends(b, a) ==
  /\ Truthy(a.treatment) => Truthy(b.treatment)
  /\ Truthy(a.outcome) => Truthy(b.outcome)
  /\ Truthy(a.dataset) => Truthy(b.dataset)
  /\ \A j \in 1..Len(a.confounders.val) :
       \E k \in 1..Len(b.confounders.val) :
         b.confounders.val[k] = a.confounders.val[j]

\* C29: while one workflow lasts, no operation unsets treatment, outcome or
\* dataset or removes an entry of confounders from the shared context.
C29_ContextOnlyExtended ==
  [][workflowState.exists /\ workflowState'.exists /\ workflowState' # initializeWorkflow
       => Extends(workflowState'.sharedContext, workflowState.sharedContext)]_vars

\* The stages before the current one are completed.
EarlierStagesCompleted(ws) ==
  \A st \in Stages :
    StageRank(st) < StageRank(ws.currentStage) => ws.status[st] = "completed"

AllStagesCompleted(ws) == \A st \in Stages : ws.status[st] = "completed"

\* C30: in a workflow driven from initializeWorkflow by rounds of a
\* successful executeCurrentStage followed by advanceToNextStage (no
\* resetToStage), every stage before the current one is completed;
\* advanceToNextStage from a completed stage returns true and moves to the
\* next stage, except at Estimation where it returns false; and once the
\* five stages are completed getProgress is 100 and isWorkflowComplete holds.
C30_FullWorkflowCompletes ==
  [][/\ workflowState'.exists /\ engineRun'.resets = 0
          => EarlierStagesCompleted(workflowState')
     /\ /\ engineRun'.op = "advanceToNextStage"
        /\ workflowState.exists
        /\ workflowState.status[workflowState.currentStage] = "completed"
        => IF workflowState.currentStage = "estimation"
           THEN engineRun'.returned = "false" /\ workflowState' = workflowState
           ELSE /\ engineRun'.returned = "true"
                /\ StageRank(workflowState'.currentStage) = StageRank(workflowState.currentStage) + 1
     /\ workflowState'.exists /\ AllStagesCompleted(workflowState')
          => getProgress(workflowState') = 100 /\ isWorkflowComplete(workflowState')]_vars

\* The five rounds have run: every stage is completed and the fifth
\* advanceToNextStage has returned false.
C30_Witness ==
  /\ workflowState.exists
  /\ engineRun.resets = 0
  /\ AllStagesCompleted(workflowState)
  /\ workflowState.currentStage = "estimation"
  /\ engineRun.op = "advanceToNextStage"
  /\ engineRun.returned = "false"

\* C31: whenever the strict parse of a reply fails, for want of a JSON
\* object or because the brace-delimited block is not valid JSON, the
\* agent's heuristic text parser produces the result.
C31_ParseFailureUsesHeuristic ==
  (ReplyParsed /\ call.ret.shape \in {"text", "badjson"}) => call.ret.parser = "heuristic"

\* C32: advanceToNextStage moves currentStage one position forward and
\* returns true when the engine is initialized and the current stage is
\* completed and is not Estimation; otherwise it returns false and leaves
\* the workflow state as it was.
C32_AdvanceOnlyFromCompleted ==
  [][engineRun'.op = "advanceToNextStage" =>
       IF /\ workflowState.exists
          /\ workflowState.status[workflowState.currentStage] = "completed"
          /\ workflowState.currentStage # "estimation"
       THEN /\ engineRun'.returned = "true"
            /\ workflowState' =
                 [workflowState EXCEPT
                    !.currentStage = WorkflowStage[StageRank(workflowState.currentStage) + 1]]
       ELSE /\ engineRun'.returned = "false"
            /\ workflowState' = workflowState]_vars

\* advanceToNextStage has refused to leave a stage that failed.
C32_Witness ==
  /\ workflowState.exists
  /\ engineRun.op = "advanceToNextStage"
  /\ engineRun.returned = "false"
  /\ workflowState.status[workflowState.currentStage] = "failed"

\* executeCurrentStage has returned an agent result flagged requiresIteration.
IterationRequested ==
  /\ engineRun.pc = "idle"
  /\ engineRun.op = "executeCurrentStage"
  /\ call.agent # "none"
  /\ call.ret.result.requiresIteration

\* C33: in the engine a stage whose agent result is flagged
\* requiresIteration is not completed, and advanceToNextStage called next
\* returns false and stays on the stage.
C33_IterationBlocksAdvance ==
  IterationRequested =>
    /\ workflowState.status[workflowState.currentStage] # "completed"
    /\ advanceToNextStage(workflowState).returned = "false"
    /\ advanceToNextStage(workflowState).state.currentStage = workflowState.currentStage

\* C38: after any sequence of the engine's public operations every stage
\* before currentStage has status completed.
C38_EarlierStagesCompleted ==
  workflowState.exists => EarlierStagesCompleted(workflowState)

\* The message being processed asked for a restart and the restart branch
\* of handleWorkflowControl has run.
RestartHandled ==
  /\ TurnSettled
  /\ turn.type = "workflow_control"
  /\ turn.subtype = "restart"
  /\ turn.missing = List(<<>>)

\* C34: after a restart has been handled the session is a new one: stage
\* Formulation, a context that holds an empty confounders list only, and an
\* empty conversation history.
C34_RestartGivesFreshSession ==
  RestartHandled =>
    /\ currentSession.exists
    /\ currentSession.currentStage = "formulation"
    /\ currentSession.sharedContext = EmptyContext
    /\ currentSession.conversationHistory = <<>>

\* A session that had named its variables and left Formulation was restarted.
C34_Witness ==
  /\ RestartHandled
  /\ Truthy(turn.before.treatment)
  /\ currentSession.sharedContext = EmptyContext

\* The messages a step has added to the display sink.
Emitted == SubSeq(turn'.sink, Len(turn.sink) + 1, Len(turn'.sink))

\* C35: when the prerequisite list of a message is non-empty, executePlan
\* leaves the session's context and stage as they were, emits one assistant
\* message and nothing else (processUserMessage may have put its
\* low-confidence note before it), and requests no suggestions.
C35_MissingPrerequisitesLeaveSession ==
  [][/\ turn.op = "processUserMessage" /\ turn.pc = "planning"
     /\ turn'.missing.def /\ Len(turn'.missing.val) > 0
     => /\ currentSession' = currentSession
        /\ Emitted \in {<<"assistant">>, <<"system", "assistant">>}
        /\ turn'.suggestRequests = 0
        /\ turn'.pc = "idle"]_vars

\* An estimation request was refused for missing prerequisites and the
\* context still has no treatment.
C35_Witness ==
  /\ turn.op = "processUserMessage"
  /\ turn.pc = "idle"
  /\ turn.missing.def /\ Len(turn.missing.val) > 0
  /\ turn.type = "estimation"
  /\ ~Truthy(currentSession.sharedContext.treatment)
  /\ turn.suggestRequests = 0

\* The strings the Formulation parsers put where a variable was not found.
Placeholders ==
  {"Not specified", "Unable to extract treatment", "Unable to extract outcome"}

\* C37: a Formulation run whose reply could not be parsed or named no
\* treatment or outcome does not satisfy the Formulation prerequisite: an
\* estimation request made in the resulting context is still told that the
\* research question needs to be formulated.
C37_FormulationPrerequisiteNeedsVariables ==
  /\ currentSession.exists
  /\ \/ currentSession.sharedContext.treatment \in Placeholders
     \/ currentSession.sharedContext.outcome \in Placeholders
  => \E k \in DOMAIN checkPrerequisites(FallbackResult("estimation", currentSession.sharedContext), currentSession.sharedContext) :
       checkPrerequisites(FallbackResult("estimation", currentSession.sharedContext), currentSession.sharedContext)[k] = MissingFormulation

\* C36: when a restart was handled while a message's stage agent was still
\* awaited, the rest of that message's handler writes nothing into the
\* session the restart created: its treatment, outcome, confounders and
\* stage are after the handler what they were before it.
C36_RestartIsolatesEarlierMessage ==
  [][/\ turn.detached
     /\ turn.pc \in {"generating", "running"}
     /\ turn'.pc \notin {"generating", "running"}
     => /\ currentSession'.sharedContext.treatment = currentSession.sharedContext.treatment
        /\ currentSession'.sharedContext.outcome = currentSession.sharedContext.outcome
        /\ currentSession'.sharedContext.confounders = currentSession.sharedContext.confounders
        /\ currentSession'.currentStage = currentSession.currentStage]_vars

====
